---- MODULE Spec2Model ----
(***************************************************************************)
(* Terrain generation and chunk streaming of the creature-simulation       *)
(* crate: the parallel world generator (world.rs), the biome classifier,   *)
(* the chunk arithmetic (optimization.rs) and the streaming pass           *)
(* (optimized_systems.rs).                                                 *)
(*                                                                         *)
(* Real numbers in [0,1] are fixed point, in hundredths: 0.35 is 35.       *)
(* World positions are whole world units.  The sizes of the source         *)
(* (WORLD_SIZE = 1000, CHUNK_SIZE = 32, sub-blocks of 64, RENDER_DISTANCE  *)
(* = 200.0, a sample every 8th tile) are scaled down so that the whole     *)
(* grid fits in a state; the scaled values keep what the arithmetic        *)
(* depends on: the world side is even (two biome ids are packed per byte), *)
(* it is not a multiple of the chunk side nor of the sub-block side, and   *)
(* the render distance is not a multiple of the chunk's world size.        *)
(***************************************************************************)
EXTENDS Integers, Sequences, FiniteSets, TLC

\* Half of the world side.
HALF_WORLD_SIZE == 4
\* world.rs:8 (1000 in the source): an even number of tiles
WORLD_SIZE == 2 * HALF_WORLD_SIZE
\* optimization.rs:10 (32 in the source)
CHUNK_SIZE == 3
\* world.rs:110, the local chunk_size of the generator (64 in the source)
GEN_CHUNK_SIZE == 5
\* optimization.rs:11 (200.0 in the source, with a chunk world size of 128)
RENDER_DISTANCE == 6
\* optimization.rs:94, sample_resolution (8 in the source)
SAMPLE_RESOLUTION == 2
\* render.rs:20 and optimization.rs:194
TILE_SIZE == 4
\* optimized_systems.rs:48, the seed the application generates with
APP_SEED == 12345

\* The camera is moved in steps of CamStep world units, at most MaxCamSteps
\* steps away from the origin in each axis.
CamStep == 6
MaxCamSteps == 2
\* WorldGenerator::new is called with the SeedPad + 1 lowest and the
\* SeedPad + 1 highest seeds.
SeedPad == 3
\* Seeds the generator is run with are 0..MaxSeed; a whole parallel run is
\* made with the seeds 0 and MaxSeed.
MaxSeed == 1
\* Worker threads of the generator's pool.
NumWorkers == 2
\* The generator's clock advances ClockStep milliseconds at a time, MaxTicks
\* times at most.
ClockStep == 50
MaxTicks == 2
\* Chunk coordinates given to chunk_to_world_bounds are -ChunkPad .. (last
\* chunk of the world) + ChunkPad.
ChunkPad == 2
\* Classifier inputs are the multiples of LevelStep hundredths in [0,1].
LevelStep == 5
\* Coordinates given to the lookups of CompressedWorldData are
\* 0 .. WORLD_SIZE - 1 + CoordPad.
CoordPad == 2
\* An element with more than InstancedOver positions in a chunk is presented
\* by one InstancedSprites entity (optimized_systems.rs:323: more than 5, in a
\* chunk of 32 x 32 tiles).
InstancedOver == 2
\* Environment sprites spawned over a run of the index systems.
MaxSprites == 2
\* Entity handles the grid of the SpatialHash holds at most.
MaxIndexEntries == 3

\* ================================================================ state

VARIABLES
    \* --- the application (main.rs, optimized_systems.rs, render.rs)
    camera_pos,        \* translation of the camera entity, <<x, y>>
    task,              \* the WorldGenerationTask entity and its Task
    progress_tracker,  \* WorldGenerationTask.progress_tracker.0, hundredths
    world_map,         \* the WorldMap resource: <<>> or <<world>>
    compressed_data,   \* the CompressedWorldData resource: <<>> or <<data>>
    world_changed,     \* the systems that see world_map.is_changed() when they run
    loaded_chunks,     \* ChunkManager.loaded_chunks: coordinate -> ChunkData
    active_chunks,     \* ChunkManager.active_chunks, a Vec of coordinates
    entities,          \* the presentation entities alive in the World
    loading_state,     \* the LoadingState resource (without its messages)
    deferred,          \* Commands queued this frame, applied at its end
    ran,               \* the systems that have run in the current frame
    last_pass,         \* what the last streaming pass computed and did
    tick_progress,     \* LoadingState.progress when the last frame ended, or <<>>
    \* --- one run of generate_world_with_progress (world.rs)
    gen_seed,          \* WorldGenerator.seed
    gen_pc,            \* where the orchestrating call is
    workers,           \* per pool thread: its position in the closure
    chunk_results,     \* per sub-block index: its chunk_tiles, once collected
    gen_tracker,       \* progress_tracker of world.rs: count, instant, lock holder
    gen_clock,         \* milliseconds since generation_start
    current_stage,     \* current_stage of world.rs: index and lock holder
    callback,          \* the progress observer: running invocations, calls made
    tiles,             \* the pre-allocated grid the merge writes
    write_count,       \* per slot, how often the merge has written it
    merge_idx,         \* index of the next chunk_results entry to merge
    world_out,         \* the returned WorldMap: <<>> or <<world>>
    \* --- single calls of the pure functions
    bounds_call,       \* chunk_to_world_bounds / render_chunk: input and result
    biome_call,        \* determine_biome_fast: input and result
    compress_call,     \* CompressedWorldData: the data built and what is read
    id_call,           \* BiomeType::from_id: input and result
    resource_call,     \* generate_resources_fast: input and results
    field_call,        \* the scalar fields of a tile: noise samples and result
    stream_call,       \* the unload and load loops of a pass: input and result
    view_call,         \* calculate_visible_chunks: viewer position and result
    pack_call,         \* the packing of two biomes into a byte and back
    new_call,          \* WorldGenerator::new: build, input, position, result
    \* --- the SpatialHash resource (optimization.rs) and what it indexes
    spatial_hash,      \* SpatialHash.grid: cell -> Vec of entities
    sprites,           \* the entities with EnvironmentSprite and Transform
    hash_call          \* the calls made on a SpatialHash and the last answer

Min(a, b) == IF a < b THEN a ELSE b
Max(a, b) == IF a > b THEN a ELSE b
Clamp(v, lo, hi) == Min(Max(v, lo), hi)

\* `as i32` of a quotient of floats: truncation toward zero.
TruncDiv(a, b) == IF a >= 0 THEN a \div b ELSE -((-a) \div b)

ToSet(s) == {s[i] : i \in DOMAIN s}

\* ------------------------------------------------------------ biome.rs

BiomeType ==
    {"Ocean", "Coastal", "Desert", "Savanna", "Grasslands", "Forest",
     "TropicalRainforest", "Mountain", "Alpine", "Tundra", "Wetlands",
     "Caves", "Volcanic", "Badlands"}

get_resources(biome) ==
    CASE biome = "Ocean" -> <<"Water", "Fish", "Salt">>
      [] biome = "Coastal" -> <<"Water", "Fish", "Salt", "Clay">>
      [] biome = "Desert" -> <<"Stone", "Minerals", "Salt">>
      [] biome = "Savanna" -> <<"Herbs", "Stone">>
      [] biome = "Grasslands" -> <<"Herbs", "Berries">>
      [] biome = "Forest" -> <<"Wood", "Berries", "Herbs">>
      [] biome = "TropicalRainforest" -> <<"Wood", "Berries", "Water">>
      [] biome = "Mountain" -> <<"Stone", "Minerals", "Water">>
      [] biome = "Alpine" -> <<"Stone", "Ice", "Herbs">>
      [] biome = "Tundra" -> <<"Ice", "Fish">>
      [] biome = "Wetlands" -> <<"Water", "Clay", "Fish">>
      [] biome = "Caves" -> <<"Minerals", "Stone", "Mushrooms">>
      [] biome = "Volcanic" -> <<"Minerals", "Sulfur", "Stone">>
      [] biome = "Badlands" -> <<"Stone", "Minerals">>

\* The ids with Badlands given an id of five bits.
to_id_wide(biome) ==
    CASE biome = "Ocean" -> 0
      [] biome = "Coastal" -> 1
      [] biome = "Desert" -> 2
      [] biome = "Savanna" -> 3
      [] biome = "Grasslands" -> 4
      [] biome = "Forest" -> 5
      [] biome = "TropicalRainforest" -> 6
      [] biome = "Mountain" -> 7
      [] biome = "Alpine" -> 8
      [] biome = "Tundra" -> 9
      [] biome = "Wetlands" -> 10
      [] biome = "Caves" -> 11
      [] biome = "Volcanic" -> 12
      [] biome = "Badlands" -> 29

\* biome.rs:76-93
to_id(biome) ==
    CASE biome = "Ocean" -> 0
      [] biome = "Coastal" -> 1
      [] biome = "Desert" -> 2
      [] biome = "Savanna" -> 3
      [] biome = "Grasslands" -> 4
      [] biome = "Forest" -> 5
      [] biome = "TropicalRainforest" -> 6
      [] biome = "Mountain" -> 7
      [] biome = "Alpine" -> 8
      [] biome = "Tundra" -> 9
      [] biome = "Wetlands" -> 10
      [] biome = "Caves" -> 11
      [] biome = "Volcanic" -> 12
      [] biome = "Badlands" -> 13

\* The lookup with no fallback arm: an id no arm names is given back as
\* "Unknown".
from_id_no_fallback(id) ==
    CASE id = 0 -> "Ocean"
      [] id = 1 -> "Coastal"
      [] id = 2 -> "Desert"
      [] id = 3 -> "Savanna"
      [] id = 4 -> "Grasslands"
      [] id = 5 -> "Forest"
      [] id = 6 -> "TropicalRainforest"
      [] id = 7 -> "Mountain"
      [] id = 8 -> "Alpine"
      [] id = 9 -> "Tundra"
      [] id = 10 -> "Wetlands"
      [] id = 11 -> "Caves"
      [] id = 12 -> "Volcanic"
      [] id = 13 -> "Badlands"
      [] OTHER -> "Unknown"

\* biome.rs:95-113: the last arm (_) is the fallback
from_id(id) ==
    CASE id = 0 -> "Ocean"
      [] id = 1 -> "Coastal"
      [] id = 2 -> "Desert"
      [] id = 3 -> "Savanna"
      [] id = 4 -> "Grasslands"
      [] id = 5 -> "Forest"
      [] id = 6 -> "TropicalRainforest"
      [] id = 7 -> "Mountain"
      [] id = 8 -> "Alpine"
      [] id = 9 -> "Tundra"
      [] id = 10 -> "Wetlands"
      [] id = 11 -> "Caves"
      [] id = 12 -> "Volcanic"
      [] id = 13 -> "Badlands"
      [] OTHER -> "Ocean"

\* ------------------------------------------------------------ world.rs

\* The classifier with its cold arm narrowed to t < 0.3 and no fallback arm:
\* an input no arm matches gives "Unmatched".
determine_biome_no_fallback(elevation, temperature, moisture) ==
    IF elevation < 30 THEN "Ocean"
    ELSE IF elevation < 35 THEN "Coastal"
    ELSE IF elevation > 80 THEN
        IF temperature < 30 THEN "Alpine"
        ELSE IF temperature < 70 THEN "Mountain"
        ELSE "Volcanic"
    ELSE IF elevation > 90 \/ temperature < 10 THEN "Tundra"
    ELSE IF temperature > 70 /\ moisture < 30 THEN "Desert"
    ELSE IF temperature > 70 /\ moisture < 60 THEN "Savanna"
    ELSE IF temperature > 70 /\ moisture >= 60 THEN "TropicalRainforest"
    ELSE IF temperature > 30 /\ temperature <= 70 /\ moisture > 80 THEN "Wetlands"
    ELSE IF temperature > 30 /\ temperature <= 70 /\ moisture > 40 THEN "Forest"
    ELSE IF temperature > 30 /\ temperature <= 70 /\ moisture <= 40 THEN "Grasslands"
    ELSE IF temperature < 30 THEN "Tundra"
    ELSE "Unmatched"

\* The classifier with the cold override (step 4) tested before the high
\* elevation arm (step 3).
determine_biome_cold_first(elevation, temperature, moisture) ==
    IF elevation < 30 THEN "Ocean"
    ELSE IF elevation < 35 THEN "Coastal"
    ELSE IF elevation > 90 \/ temperature < 10 THEN "Tundra"
    ELSE IF elevation > 80 THEN
        IF temperature < 30 THEN "Alpine"
        ELSE IF temperature < 70 THEN "Mountain"
        ELSE "Volcanic"
    ELSE IF temperature > 70 /\ moisture < 30 THEN "Desert"
    ELSE IF temperature > 70 /\ moisture < 60 THEN "Savanna"
    ELSE IF temperature > 70 /\ moisture >= 60 THEN "TropicalRainforest"
    ELSE IF temperature > 30 /\ temperature <= 70 /\ moisture > 80 THEN "Wetlands"
    ELSE IF temperature > 30 /\ temperature <= 70 /\ moisture > 40 THEN "Forest"
    ELSE IF temperature > 30 /\ temperature <= 70 /\ moisture <= 40 THEN "Grasslands"
    ELSE IF temperature <= 30 THEN "Tundra"
    ELSE IF temperature > 80 /\ moisture < 20 THEN "Badlands"
    ELSE "Grasslands"

\* The classifier with the 'elevation > 0.90' clause of step 4 tested on its
\* own before the high elevation arm (step 3).
determine_biome_peak_first(elevation, temperature, moisture) ==
    IF elevation < 30 THEN "Ocean"
    ELSE IF elevation < 35 THEN "Coastal"
    ELSE IF elevation > 90 THEN "Tundra"
    ELSE IF elevation > 80 THEN
        IF temperature < 30 THEN "Alpine"
        ELSE IF temperature < 70 THEN "Mountain"
        ELSE "Volcanic"
    ELSE IF temperature < 10 THEN "Tundra"
    ELSE IF temperature > 70 /\ moisture < 30 THEN "Desert"
    ELSE IF temperature > 70 /\ moisture < 60 THEN "Savanna"
    ELSE IF temperature > 70 /\ moisture >= 60 THEN "TropicalRainforest"
    ELSE IF temperature > 30 /\ temperature <= 70 /\ moisture > 80 THEN "Wetlands"
    ELSE IF temperature > 30 /\ temperature <= 70 /\ moisture > 40 THEN "Forest"
    ELSE IF temperature > 30 /\ temperature <= 70 /\ moisture <= 40 THEN "Grasslands"
    ELSE IF temperature <= 30 THEN "Tundra"
    ELSE IF temperature > 80 /\ moisture < 20 THEN "Badlands"
    ELSE "Grasslands"

\* The classifier with the Badlands arm tried before the Desert arm.
determine_biome_badlands_first(elevation, temperature, moisture) ==
    IF elevation < 30 THEN "Ocean"
    ELSE IF elevation < 35 THEN "Coastal"
    ELSE IF elevation > 80 THEN
        IF temperature < 30 THEN "Alpine"
        ELSE IF temperature < 70 THEN "Mountain"
        ELSE "Volcanic"
    ELSE IF elevation > 90 \/ temperature < 10 THEN "Tundra"
    ELSE IF temperature > 80 /\ moisture < 20 THEN "Badlands"
    ELSE IF temperature > 70 /\ moisture < 30 THEN "Desert"
    ELSE IF temperature > 70 /\ moisture < 60 THEN "Savanna"
    ELSE IF temperature > 70 /\ moisture >= 60 THEN "TropicalRainforest"
    ELSE IF temperature > 30 /\ temperature <= 70 /\ moisture > 80 THEN "Wetlands"
    ELSE IF temperature > 30 /\ temperature <= 70 /\ moisture > 40 THEN "Forest"
    ELSE IF temperature > 30 /\ temperature <= 70 /\ moisture <= 40 THEN "Grasslands"
    ELSE IF temperature <= 30 THEN "Tundra"
    ELSE "Grasslands"

\* world.rs:263-282: the guards of the match arms, in their order; the last
\* arm (_) has none.
match_guards(t, m) ==
    <<t > 70 /\ m < 30,
      t > 70 /\ m < 60,
      t > 70 /\ m >= 60,
      t > 30 /\ t <= 70 /\ m > 80,
      t > 30 /\ t <= 70 /\ m > 40,
      t > 30 /\ t <= 70 /\ m <= 40,
      t <= 30,
      t > 80 /\ m < 20,
      TRUE>>

\* world.rs:263-282: what the match arms return, in their order
match_results ==
    <<"Desert", "Savanna", "TropicalRainforest", "Wetlands", "Forest",
      "Grasslands", "Tundra", "Badlands", "Grasslands">>

\* world.rs:236-260: one of the returns before the match is taken
returns_before_match(elevation, temperature) ==
    elevation < 35 \/ elevation > 80 \/ temperature < 10

\* world.rs:263: the arm the match takes, the first whose guard holds
matched_arm(temperature, moisture) ==
    CHOOSE i \in DOMAIN match_results :
        /\ match_guards(temperature, moisture)[i]
        /\ \A j \in 1..(i - 1) : ~match_guards(temperature, moisture)[j]

\* world.rs:235-283.  The early returns, then the match arms in their order;
\* the last arm (_) matches everything.
determine_biome_fast(elevation, temperature, moisture) ==
    IF elevation < 30 THEN "Ocean"
    ELSE IF elevation < 35 THEN "Coastal"
    ELSE IF elevation > 80 THEN
        IF temperature < 30 THEN "Alpine"
        ELSE IF temperature < 70 THEN "Mountain"
        ELSE "Volcanic"
    ELSE IF elevation > 90 \/ temperature < 10 THEN "Tundra"
    ELSE IF temperature > 70 /\ moisture < 30 THEN "Desert"
    ELSE IF temperature > 70 /\ moisture < 60 THEN "Savanna"
    ELSE IF temperature > 70 /\ moisture >= 60 THEN "TropicalRainforest"
    ELSE IF temperature > 30 /\ temperature <= 70 /\ moisture > 80 THEN "Wetlands"
    ELSE IF temperature > 30 /\ temperature <= 70 /\ moisture > 40 THEN "Forest"
    ELSE IF temperature > 30 /\ temperature <= 70 /\ moisture <= 40 THEN "Grasslands"
    ELSE IF temperature <= 30 THEN "Tundra"
    ELSE IF temperature > 80 /\ moisture < 20 THEN "Badlands"
    ELSE "Grasslands"

\* ------------------------------------------------- 64-bit wrapping hash
\* A u64 is its eight bytes, least significant first.

U64(n) == [i \in 1..8 |-> IF i <= 4 THEN (n \div (256 ^ (i - 1))) % 256 ELSE 0]

\* 6364136223846793005 = 0x5851F42D4C957F2D (world.rs:289 and 291)
HASH_MULTIPLIER == <<45, 127, 149, 76, 45, 244, 81, 88>>

MulColumn(a, b, k) ==
    LET Term[i \in 0..k] ==
            IF i = 0 THEN 0 ELSE Term[i - 1] + a[i] * b[k + 1 - i]
    IN  Term[k]

RECURSIVE MulCarry(_, _, _, _)
MulCarry(a, b, k, carry) ==
    IF k > 8 THEN <<>>
    ELSE LET s == MulColumn(a, b, k) + carry
         IN  <<s % 256>> \o MulCarry(a, b, k + 1, s \div 256)

wrapping_mul(a, b) == MulCarry(a, b, 1, 0)

RECURSIVE AddCarry(_, _, _, _)
AddCarry(a, b, k, carry) ==
    IF k > 8 THEN <<>>
    ELSE LET s == a[k] + b[k] + carry
         IN  <<s % 256>> \o AddCarry(a, b, k + 1, s \div 256)

wrapping_add(a, b) == AddCarry(a, b, 1, 0)

\* world.rs:288-291
position_hash(seed, x, y) ==
    wrapping_mul(
        wrapping_add(wrapping_mul(U64(seed), HASH_MULTIPLIER),
                     U64(x * 65536 + y)),
        HASH_MULTIPLIER)

\* (hash >> 16) % 3: the upper six bytes, and 256 = 1 (mod 3)
ShiftedMod3(h) == (h[3] + h[4] + h[5] + h[6] + h[7] + h[8]) % 3

\* The count drawn as world.rs:385-394 draws it, from the calling thread's
\* generator: its value depends on what the thread has done before, which is
\* here the progress the tracker has counted.
resource_count_thread_rng(biome, seed, x, y) ==
    Min((gen_tracker.count % 3) + 1, Len(get_resources(biome)))

\* The count without the + 1 of world.rs:298: 0 to 2.
resource_count_from_zero(biome, seed, x, y) ==
    Min(ShiftedMod3(position_hash(seed, x, y)), Len(get_resources(biome)))

\* The count drawn from a generator that advances with every call on the
\* thread: its value depends on how many lists have been drawn before.
resource_count_by_call(biome, seed, x, y) ==
    Min(((IF resource_call = <<>> THEN 0 ELSE Len(resource_call[1].results)) % 3) + 1,
        Len(get_resources(biome)))

\* world.rs:298-299
resource_count(biome, seed, x, y) ==
    Min(ShiftedMod3(position_hash(seed, x, y)) + 1, Len(get_resources(biome)))

\* world.rs:286-302
generate_resources_fast(biome, seed, x, y) ==
    IF Len(get_resources(biome)) = 0 THEN <<>>
    ELSE SubSeq(get_resources(biome), 1, resource_count(biome, seed, x, y))

\* ------------------------------------------------------ noise sampling
\* Perlin::get of the noise crate at the octave-th frequency of a field: a
\* pure function of (seed, x, y) with values in [-1, 1].  Its values here are
\* the multiples of 0.2, so that the halved octave, the 0.3 weight and the
\* normalisation stay whole hundredths.
perlin_get(noise_seed, x, y, octave) ==
    20 * (((noise_seed * 31 + x * 17 + y * 7 + octave * 3) % 11) - 5)

\* world.rs:138-148: the two octave samples, amplitude 1 then 0.5, then
\* (elev + 1) / 2
elevation_of(octave0, octave1) ==
    (octave0 + (octave1 \div 2) + 100) \div 2

\* world.rs:154-156: latitude gradient plus 0.3 of the sample, clamped
temperature_of(y, noise_value) ==
    LET latitude_effect == 100 - ((100 * y) \div WORLD_SIZE)
    IN  Clamp(latitude_effect + ((noise_value * 3) \div 10), 0, 100)

\* world.rs:162-163
moisture_of(noise_value) ==
    (noise_value + 100) \div 2

\* world.rs:136-149: the elevation field is seeded with seed (world.rs:37)
generate_elevation_fast(seed, x, y) ==
    elevation_of(perlin_get(seed, x, y, 0), perlin_get(seed, x, y, 1))

\* world.rs:152-157: the temperature field is seeded with seed + 1 (world.rs:40)
generate_temperature_fast(seed, x, y) ==
    temperature_of(y, perlin_get(seed + 1, x, y, 0))

\* world.rs:160-164: the moisture field is seeded with seed + 2 (world.rs:43)
generate_moisture_fast(seed, x, y) ==
    moisture_of(perlin_get(seed + 2, x, y, 0))

\* world.rs:166-175: one tile of the grid
generate_tile(seed, x, y) ==
    LET elevation == generate_elevation_fast(seed, x, y)
        temperature == generate_temperature_fast(seed, x, y)
        moisture == generate_moisture_fast(seed, x, y)
        biome == determine_biome_fast(elevation, temperature, moisture)
    IN  [biome |-> biome, elevation |-> elevation, temperature |-> temperature,
         moisture |-> moisture,
         resources |-> generate_resources_fast(biome, seed, x, y)]

\* world.rs:65-71: the tile every slot is pre-allocated with
PlaceholderTile ==
    [biome |-> "Ocean", elevation |-> 0, temperature |-> 0, moisture |-> 0,
     resources |-> <<>>]

TileIndex == 0..(WORLD_SIZE - 1)

\* world.rs:111-112
chunks_per_side == (WORLD_SIZE + GEN_CHUNK_SIZE - 1) \div GEN_CHUNK_SIZE
total_chunks == chunks_per_side * chunks_per_side

\* Sub-block bounds whose end is one past the block (overlapping blocks).
sub_block_bounds_overlap(chunk_idx) ==
    LET start_x == (chunk_idx % chunks_per_side) * GEN_CHUNK_SIZE
        start_y == (chunk_idx \div chunks_per_side) * GEN_CHUNK_SIZE
    IN  <<start_x, start_y,
          Min(start_x + GEN_CHUNK_SIZE + 1, WORLD_SIZE),
          Min(start_y + GEN_CHUNK_SIZE + 1, WORLD_SIZE)>>

\* world.rs:116-122: <<start_x, start_y, end_x, end_y>> of a sub-block
sub_block_bounds(chunk_idx) ==
    LET chunk_x == chunk_idx % chunks_per_side
        chunk_y == chunk_idx \div chunks_per_side
        start_x == chunk_x * GEN_CHUNK_SIZE
        start_y == chunk_y * GEN_CHUNK_SIZE
    IN  <<start_x, start_y,
          Min(start_x + GEN_CHUNK_SIZE, WORLD_SIZE),
          Min(start_y + GEN_CHUNK_SIZE, WORLD_SIZE)>>

\* world.rs:124-177: chunk_tiles of a sub-block, x outer and y inner
sub_block_tiles(seed, chunk_idx) ==
    LET b == sub_block_bounds(chunk_idx)
        w == b[3] - b[1]
        h == b[4] - b[2]
    IN  IF w <= 0 \/ h <= 0 THEN <<>>
        ELSE [i \in 1..(w * h) |->
                LET x == b[1] + ((i - 1) \div h)
                    y == b[2] + ((i - 1) % h)
                IN  <<x, y, generate_tile(seed, x, y)>>]

\* ------------------------------------------------------ optimization.rs

\* The ring count with the quotient rounded up.
render_chunks_ceil ==
    ((RENDER_DISTANCE + CHUNK_SIZE * TILE_SIZE - 1) \div (CHUNK_SIZE * TILE_SIZE)) + 1

\* optimization.rs:197: (RENDER_DISTANCE / (CHUNK_SIZE * tile_size)) as i32 + 1
render_chunks == TruncDiv(RENDER_DISTANCE, CHUNK_SIZE * TILE_SIZE) + 1

\* optimization.rs:195-196: the chunk the camera position falls in
camera_chunk(pos) ==
    <<TruncDiv(pos[1], CHUNK_SIZE * TILE_SIZE),
      TruncDiv(pos[2], CHUNK_SIZE * TILE_SIZE)>>

\* The visible chunks restricted to the coordinates that have tiles.
calculate_visible_chunks_in_world(pos) ==
    LET c == camera_chunk(pos)
        side == 2 * render_chunks + 1
        square == [i \in 1..(side * side) |->
                      <<c[1] - render_chunks + ((i - 1) \div side),
                        c[2] - render_chunks + ((i - 1) % side)>>]
    IN  SelectSeq(square,
                  LAMBDA d : /\ d[1] >= 0 /\ d[1] * CHUNK_SIZE < WORLD_SIZE
                             /\ d[2] >= 0 /\ d[2] * CHUNK_SIZE < WORLD_SIZE)

\* optimization.rs:193-206: the Vec of visible chunks, x outer and y inner
calculate_visible_chunks(pos) ==
    LET c == camera_chunk(pos)
        side == 2 * render_chunks + 1
    IN  [i \in 1..(side * side) |->
            <<c[1] - render_chunks + ((i - 1) \div side),
              c[2] - render_chunks + ((i - 1) % side)>>]

\* optimization.rs:208-210
world_to_chunk_coord(world_x, world_y) ==
    <<world_x \div CHUNK_SIZE, world_y \div CHUNK_SIZE>>

\* Bounds whose starts are clamped to the last valid index, WORLD_SIZE - 1.
chunk_to_world_bounds_last_index(chunk_x, chunk_y) ==
    <<Clamp(chunk_x * CHUNK_SIZE, 0, WORLD_SIZE - 1),
      Clamp(chunk_y * CHUNK_SIZE, 0, WORLD_SIZE - 1),
      Clamp((chunk_x + 1) * CHUNK_SIZE, 0, WORLD_SIZE),
      Clamp((chunk_y + 1) * CHUNK_SIZE, 0, WORLD_SIZE)>>

\* Bounds whose end is the last tile of the chunk instead of one past it.
chunk_to_world_bounds_short(chunk_x, chunk_y) ==
    <<Clamp(chunk_x * CHUNK_SIZE, 0, WORLD_SIZE),
      Clamp(chunk_y * CHUNK_SIZE, 0, WORLD_SIZE),
      Clamp((chunk_x + 1) * CHUNK_SIZE - 1, 0, WORLD_SIZE),
      Clamp((chunk_y + 1) * CHUNK_SIZE - 1, 0, WORLD_SIZE)>>

\* optimization.rs:212-226: <<start_x, start_y, end_x, end_y>>, each clamped
\* to [0, WORLD_SIZE]
chunk_to_world_bounds(chunk_x, chunk_y) ==
    <<Clamp(chunk_x * CHUNK_SIZE, 0, WORLD_SIZE),
      Clamp(chunk_y * CHUNK_SIZE, 0, WORLD_SIZE),
      Clamp((chunk_x + 1) * CHUNK_SIZE, 0, WORLD_SIZE),
      Clamp((chunk_y + 1) * CHUNK_SIZE, 0, WORLD_SIZE)>>

\* ------------------------------------- optimization.rs, SpatialHash

\* optimization.rs:39
cell_size == 64

\* optimization.rs:77-79: (position / cell_size) as i32 on both axes
world_to_cell(position) ==
    <<TruncDiv(position[1], cell_size), TruncDiv(position[2], cell_size)>>

\* optimization.rs:46-49: the grid is a function from the cells that have an
\* entry to the Vec of entity handles of the cell.
hash_insert(grid, entity, position) ==
    LET cell == world_to_cell(position)
    IN  [c \in DOMAIN grid \cup {cell} |->
            IF c \in DOMAIN grid
            THEN IF c = cell THEN Append(grid[c], entity) ELSE grid[c]
            ELSE <<entity>>]

\* optimization.rs:51-56
hash_remove(grid, entity, position) ==
    LET cell == world_to_cell(position)
    IN  [c \in DOMAIN grid |->
            IF c = cell THEN SelectSeq(grid[c], LAMBDA e : e # entity)
            ELSE grid[c]]

\* optimization.rs:63-69: the Vecs of the cells of the sequence cells that
\* have an entry, one after the other
RECURSIVE extend_nearby(_, _)
extend_nearby(grid, cells) ==
    IF cells = <<>> THEN <<>>
    ELSE (IF Head(cells) \in DOMAIN grid THEN grid[Head(cells)] ELSE <<>>)
             \o extend_nearby(grid, Tail(cells))

\* The cells from min_cell to max_cell, x outer and y inner, without the last
\* column and the last row.
cells_between_exclusive(min_cell, max_cell) ==
    LET w == Max(max_cell[1] - min_cell[1], 0)
        h == Max(max_cell[2] - min_cell[2], 0)
    IN  [i \in 1..(w * h) |->
            <<min_cell[1] + ((i - 1) \div h), min_cell[2] + ((i - 1) % h)>>]

\* optimization.rs:63-64: min_cell.0..=max_cell.0 by min_cell.1..=max_cell.1,
\* x outer and y inner
cells_between(min_cell, max_cell) ==
    LET w == Max(max_cell[1] - min_cell[1] + 1, 0)
        h == Max(max_cell[2] - min_cell[2] + 1, 0)
    IN  [i \in 1..(w * h) |->
            <<min_cell[1] + ((i - 1) \div h), min_cell[2] + ((i - 1) % h)>>]

\* optimization.rs:58-71
get_nearby(grid, position, radius) ==
    extend_nearby(grid,
        cells_between(
            world_to_cell(<<position[1] - radius, position[2] - radius>>),
            world_to_cell(<<position[1] + radius, position[2] + radius>>)))

\* ------------------------------------- optimization.rs, compression

\* optimization.rs:101-112: the bytes of one row are the pairs (y, y + 1) for
\* y = 0, 2, 4, ...
pairs_per_row == (WORLD_SIZE + 1) \div 2

\* optimization.rs:109: a | b on two u8, bit by bit
RECURSIVE bit_or(_, _)
bit_or(a, b) ==
    IF a = 0 THEN b
    ELSE IF b = 0 THEN a
    ELSE (IF a % 2 = 1 \/ b % 2 = 1 THEN 1 ELSE 0)
         + 2 * bit_or(a \div 2, b \div 2)

\* optimization.rs:109: a << 4 on a u8; the bits shifted out are dropped
shift_left_4(a) == (a * 16) % 256

\* optimization.rs:103-110: (biome2 << 4) | biome1
packed_byte(map, x, y) ==
    LET biome1 == to_id(map.tiles[x][y].biome)
        biome2 == IF y + 1 < WORLD_SIZE
                  THEN to_id(map.tiles[x][y + 1].biome)
                  ELSE 0
    IN  bit_or(shift_left_4(biome2), biome1)

\* optimization.rs:115-116: the sampled coordinates of one axis
samples_per_side == (WORLD_SIZE + SAMPLE_RESOLUTION - 1) \div SAMPLE_RESOLUTION

\* optimization.rs:93-131: the Vecs are sequences, Rust's index i is i + 1.
from_world_map(map) ==
    [biomes |->
        [i \in 1..(WORLD_SIZE * pairs_per_row) |->
            packed_byte(map, (i - 1) \div pairs_per_row,
                        2 * ((i - 1) % pairs_per_row))],
     elevation_samples |->
        [i \in 1..(samples_per_side * samples_per_side) |->
            map.tiles[SAMPLE_RESOLUTION * ((i - 1) \div samples_per_side)]
                     [SAMPLE_RESOLUTION * ((i - 1) % samples_per_side)].elevation],
     sample_resolution |-> SAMPLE_RESOLUTION]

\* The lookup with the nibbles taken the other way round.
get_biome_swapped_nibbles(data, x, y) ==
    LET index == x * WORLD_SIZE + y
        byte_index == index \div 2
    IN  IF byte_index >= Len(data.biomes) THEN 0
        ELSE IF index % 2 = 1 THEN data.biomes[byte_index + 1] % 16
        ELSE (data.biomes[byte_index + 1] \div 16) % 16

\* optimization.rs:133-148
get_biome(data, x, y) ==
    LET index == x * WORLD_SIZE + y
        byte_index == index \div 2
        is_upper_nibble == index % 2 = 1
    IN  IF byte_index >= Len(data.biomes) THEN 0
        ELSE IF is_upper_nibble THEN (data.biomes[byte_index + 1] \div 16) % 16
        ELSE data.biomes[byte_index + 1] % 16

\* optimization.rs:150-155: get(i).copied().unwrap_or(0.0).  The Vec is never
\* empty (WORLD_SIZE > 0), so len() - 1 does not overflow.
get_elevation(data, x, y) ==
    LET sample_x == Min(x \div data.sample_resolution,
                        Len(data.elevation_samples) - 1)
        sample_y == Min(y \div data.sample_resolution,
                        Len(data.elevation_samples) - 1)
    IN  IF sample_x * sample_y < Len(data.elevation_samples)
        THEN data.elevation_samples[sample_x * sample_y + 1]
        ELSE 0

\* ------------------------------------------------------- environment.rs

\* environment.rs:97-205: per biome, the elements in the order they are
\* rolled, each with its probability in hundredths
environment_table(biome) ==
    CASE biome = "Forest" -> <<<<"Tree", 30>>, <<"Bush", 40>>, <<"Mushroom", 20>>>>
      [] biome = "TropicalRainforest" -> <<<<"Tree", 50>>, <<"Bush", 60>>, <<"Flower", 10>>>>
      [] biome = "Grasslands" -> <<<<"Grass", 70>>, <<"Flower", 10>>, <<"Rock", 5>>>>
      [] biome = "Savanna" -> <<<<"Grass", 50>>, <<"Tree", 10>>, <<"Rock", 10>>>>
      [] biome = "Desert" -> <<<<"Cactus", 10>>, <<"Rock", 15>>, <<"DeadTree", 5>>>>
      [] biome = "Mountain" -> <<<<"Rock", 30>>, <<"DeadTree", 10>>>>
      [] biome = "Alpine" -> <<<<"Rock", 40>>>>
      [] biome = "Wetlands" -> <<<<"Grass", 60>>, <<"Bush", 20>>, <<"Mushroom", 10>>>>
      [] biome = "Tundra" -> <<<<"Rock", 10>>>>
      [] biome = "Badlands" -> <<<<"Rock", 20>>, <<"DeadTree", 5>>>>
      [] biome = "Volcanic" -> <<<<"Rock", 25>>>>
      [] biome = "Caves" -> <<<<"Mushroom", 30>>, <<"Rock", 40>>>>
      [] OTHER -> <<>>

\* The k-th draw, in hundredths, of the StdRng seeded for a tile
\* (environment.rs:94-95): a pure function of the seed and k.
seeded_rng_gen(rng_seed, k) == (((rng_seed \div 12345) * 29) + (k * 41) + 13) % 100

\* environment.rs:90-208: the set of element kinds of a tile
get_environment_elements(biome, tile_x, tile_y) ==
    LET rng_seed == (tile_x * WORLD_SIZE + tile_y) * 12345
        table == environment_table(biome)
    IN  {table[k][1] : k \in {j \in DOMAIN table :
                                  seeded_rng_gen(rng_seed, j) < table[j][2]}}

\* -------------------------------------------------- optimized_systems.rs

EnvironmentType ==
    {"Tree", "Grass", "Rock", "Cactus", "Bush", "Flower", "Mushroom", "DeadTree"}

\* optimized_systems.rs:271: the chunk is skipped
chunk_is_skipped(b) ==
    b[1] >= b[3] \/ b[2] >= b[4] \/ b[1] >= WORLD_SIZE \/ b[2] >= WORLD_SIZE

\* optimized_systems.rs:281-285: the tiles render_chunk reads
render_chunk_tiles(chunk_coord) ==
    LET b == chunk_to_world_bounds(chunk_coord[1], chunk_coord[2])
    IN  IF chunk_is_skipped(b) THEN {}
        ELSE {t \in (b[1]..(b[3] - 1)) \X (b[2]..(b[4] - 1)) :
                  t[1] < WORLD_SIZE /\ t[2] < WORLD_SIZE}

\* optimized_systems.rs:293-297, render.rs:51-55: the translation tile (x, y)
\* is presented at
tile_translation(x, y) ==
    <<(x - WORLD_SIZE \div 2) * TILE_SIZE, (y - WORLD_SIZE \div 2) * TILE_SIZE>>

\* optimized_systems.rs:259-350: the entities render_chunk spawns and returns.
\* An entity is what it presents (a tile sprite, an environment sprite of one
\* element at a tile, or the instanced sprites of one element of a chunk) and
\* the system that spawned it: "chunk" for render_chunk, "world" for
\* render_world_tiles.
spawned_by_render_chunk(map, chunk_coord) ==
    LET range == render_chunk_tiles(chunk_coord)
        positions(elem) ==
            {t \in range :
                elem \in get_environment_elements(
                             map.tiles[t[1]][t[2]].biome, t[1], t[2])}
        tile_entities ==
            {[kind |-> "tile", x |-> t[1], y |-> t[2], elem |-> "none",
              owner |-> "chunk"] :
                t \in range}
        instanced_entities ==
            {[kind |-> "instanced", x |-> chunk_coord[1], y |-> chunk_coord[2],
              elem |-> e, owner |-> "chunk"] :
                e \in {e \in EnvironmentType : Cardinality(positions(e)) > InstancedOver}}
        individual_entities ==
            UNION {{[kind |-> "env", x |-> t[1], y |-> t[2], elem |-> e,
                      owner |-> "chunk"] :
                       t \in positions(e)} :
                   e \in {e \in EnvironmentType :
                              Cardinality(positions(e)) \in 1..InstancedOver}}
    IN  tile_entities \cup instanced_entities \cup individual_entities

\* world.rs:58-232 run to completion: the WorldMap a generation returns
generate_world(seed) ==
    [tiles |-> [x \in TileIndex |-> [y \in TileIndex |-> generate_tile(seed, x, y)]],
     seed |-> seed]

\* The positions the camera is moved to.
CamRange == {k * CamStep : k \in (-MaxCamSteps)..MaxCamSteps}

\* optimized_systems.rs:46-66: the WorldMap the task computes, from the seed
\* of line 48
generated_world == generate_world(APP_SEED)

\* What render_chunk spawns for the generated world, computed once for every
\* coordinate that is in the target set of some camera position.
generated_chunks ==
    [c \in UNION {ToSet(calculate_visible_chunks(<<px, py>>)) :
                     px \in CamRange, py \in CamRange} |->
        spawned_by_render_chunk(generated_world, c)]

\* optimized_systems.rs:259-350: render_chunk, a function of the map and the
\* coordinate alone.
render_chunk(map, chunk_coord) ==
    IF chunk_coord \in DOMAIN generated_chunks /\ map = generated_world
    THEN generated_chunks[chunk_coord]
    ELSE spawned_by_render_chunk(map, chunk_coord)

\* render.rs:40-67: the entities render_world_tiles spawns, a tile sprite and
\* its environment sprites for every tile of the world.
render_world(map) ==
    UNION {{[kind |-> "tile", x |-> t[1], y |-> t[2], elem |-> "none",
             owner |-> "world"]}
           \cup {[kind |-> "env", x |-> t[1], y |-> t[2], elem |-> e,
                  owner |-> "world"] :
                    e \in get_environment_elements(
                              map.tiles[t[1]][t[2]].biome, t[1], t[2])} :
           t \in TileIndex \X TileIndex}

\* The unload list of a pass that unloads every active chunk.
chunks_to_unload_all(active, visible) == active

\* optimized_systems.rs:188-193
chunks_to_unload(active, visible) ==
    SelectSeq(active, LAMBDA c : c \notin ToSet(visible))

\* Unloads that despawn the tile sprites of a chunk and nothing else.
unload_despawns_tiles_only(loaded, to_unload) ==
    {e \in UNION {loaded[c].entities : c \in ToSet(to_unload) \cap DOMAIN loaded} :
        e.kind = "tile"}

\* optimized_systems.rs:195-200: the entities the unloads despawn
unload_despawns(loaded, to_unload) ==
    UNION {loaded[c].entities : c \in ToSet(to_unload) \cap DOMAIN loaded}

\* Unloading that despawns the entities but keeps the Chunk entries.
unload_chunks_keep_entries(loaded, to_unload) == loaded

\* optimized_systems.rs:195-202: loaded_chunks after the unloads
unload_chunks(loaded, to_unload) ==
    [c \in (DOMAIN loaded) \ ToSet(to_unload) |-> loaded[c]]

\* A pass that leaves active_chunks as it was.
next_active_chunks_stale(active, visible) == active

\* optimized_systems.rs:205
next_active_chunks(active, visible) == visible

\* A load loop that renders every coordinate of the target set.
chunks_to_load_all(loaded, visible) == ToSet(visible)

\* A load loop that finds every coordinate loaded.
chunks_to_load_none(loaded, visible) == {}

\* optimized_systems.rs:212-213: the coordinates a pass loads
chunks_to_load(loaded, visible) ==
    {c \in ToSet(visible) : c \notin DOMAIN loaded}

\* optimized_systems.rs:210: visible_chunks.len() - loaded_chunks.len(), as
\* the difference of the two lengths; it is a usize when it is not negative.
total_chunks_to_load(loaded, visible) ==
    Len(visible) - Cardinality(DOMAIN loaded)

\* Loading that renders the chunks but records no Chunk entry.
load_chunks_unrecorded(loaded, visible, map) == loaded

\* optimized_systems.rs:212-221: loaded_chunks after the loads
load_chunks(loaded, visible, map) ==
    [c \in (DOMAIN loaded) \cup chunks_to_load(loaded, visible) |->
        IF c \in DOMAIN loaded THEN loaded[c]
        ELSE [entities |-> render_chunk(map, c), is_loaded |-> TRUE]]

\* optimized_systems.rs:195-202: the unloads in the order the loop makes them
unload_ops(loaded, to_unload) ==
    [i \in 1..Len(to_unload) |->
        [op |-> "unload", chunk |-> to_unload[i],
         had_entry |-> to_unload[i] \in DOMAIN loaded]]

\* optimized_systems.rs:212-221: the loads in the order the loop makes them
load_ops(loaded, visible) ==
    LET to_load == SelectSeq(visible, LAMBDA c : c \notin DOMAIN loaded)
    IN  [i \in 1..Len(to_load) |->
            [op |-> "load", chunk |-> to_load[i], had_entry |-> FALSE]]

\* A pass whose load loop runs before its unload loop.
pass_ops_loads_first(loaded, active, visible) ==
    load_ops(loaded, visible)
        \o unload_ops(loaded, chunks_to_unload(active, visible))

\* optimized_systems.rs:187-221: the chunk operations of a pass, in the order
\* of the statements: the unload loop, then the load loop on what it left
pass_ops(loaded, active, visible) ==
    unload_ops(loaded, chunks_to_unload(active, visible))
        \o load_ops(unload_chunks(loaded, chunks_to_unload(active, visible)),
                    visible)

app_vars ==
    <<camera_pos, task, progress_tracker, world_map, compressed_data,
      world_changed,
      loaded_chunks, active_chunks, entities, loading_state, deferred, ran,
      last_pass, tick_progress>>
gen_vars ==
    <<gen_seed, gen_pc, workers, chunk_results, gen_tracker, gen_clock,
      current_stage, callback, tiles, write_count, merge_idx, world_out>>
fn_vars ==
    <<bounds_call, biome_call, compress_call, id_call, resource_call,
      field_call, stream_call, view_call, pack_call, new_call>>
hash_vars == <<spatial_hash, sprites, hash_call>>
vars == <<app_vars, gen_vars, fn_vars, hash_vars>>

NoCommands == [install |-> <<>>, despawn |-> {}, spawn |-> {}]
NoPass ==
    [ran |-> FALSE, streamed |-> FALSE, camera |-> <<0, 0>>, target |-> <<>>,
     unloaded |-> {}, loaded |-> {}, despawned |-> {}, spawned |-> {},
     total_chunks_to_load |-> 0]

Systems == {"camera", "check", "stream", "render", "messages"}

\* The application after the Startup schedule (main.rs:45): the camera is
\* spawned at the origin with progress 0.1 (main.rs:58-68), the generation
\* task is spawned (optimized_systems.rs:34-78), ChunkManager and
\* LoadingState hold their defaults.
AppInit ==
    /\ camera_pos = <<0, 0>>
    /\ task = "running"
    /\ progress_tracker = 0
    /\ world_map = <<>>
    /\ compressed_data = <<>>
    /\ world_changed = {}
    /\ loaded_chunks = <<>>
    /\ active_chunks = <<>>
    /\ entities = {}
    /\ loading_state =
         [progress |-> 10, world_ready |-> FALSE,
          first_frame_rendered |-> FALSE, is_complete |-> FALSE]
    /\ deferred = NoCommands
    /\ ran = {}
    /\ last_pass = NoPass
    /\ tick_progress = <<>>

\* No generation call in progress.
GenIdle ==
    /\ gen_seed = 0
    /\ gen_pc = "idle"
    /\ workers = <<>>
    /\ chunk_results = <<>>
    /\ gen_tracker = [count |-> 0, last |-> 0, holder |-> 0]
    /\ gen_clock = 0
    /\ current_stage = [stage |-> 0, holder |-> 0]
    /\ callback = [active |-> 0, calls |-> <<>>]
    /\ tiles = <<>>
    /\ write_count = <<>>
    /\ merge_idx = 0
    /\ world_out = <<>>

FnIdle ==
    /\ bounds_call = <<>>
    /\ biome_call = <<>>
    /\ compress_call = <<>>
    /\ id_call = <<>>
    /\ resource_call = <<>>
    /\ field_call = <<>>
    /\ stream_call = <<>>
    /\ view_call = <<>>
    /\ pack_call = <<>>
    /\ new_call = <<>>

\* optimized_systems.rs:20: the SpatialHash resource at its default, nothing
\* indexed and no call made.
HashIdle ==
    /\ spatial_hash = <<>>
    /\ sprites = <<>>
    /\ hash_call = <<>>

\* The application not started.
AppIdle ==
    /\ camera_pos = <<0, 0>>
    /\ task = "none"
    /\ progress_tracker = 0
    /\ world_map = <<>>
    /\ compressed_data = <<>>
    /\ world_changed = {}
    /\ loaded_chunks = <<>>
    /\ active_chunks = <<>>
    /\ entities = {}
    /\ loading_state =
         [progress |-> 0, world_ready |-> FALSE,
          first_frame_rendered |-> FALSE, is_complete |-> FALSE]
    /\ deferred = NoCommands
    /\ ran = {}
    /\ last_pass = NoPass
    /\ tick_progress = <<>>

\* ------------------------------------------------- the application's frame

\* The values the generator's callback is called with by a worker
\* (time_progress, at most 0.7: world.rs:208) before the final 1.0.
WorkerReports == {5, 35, 70}

\* optimized_systems.rs:56-63, called from world.rs:209: the progress callback
\* stores progress * 0.7.  Successive reports do not decrease.
TaskReportsProgress ==
    /\ task = "running"
    /\ \E p \in WorkerReports :
          /\ (p * 7) \div 10 > progress_tracker
          /\ progress_tracker' = (p * 7) \div 10
    /\ UNCHANGED <<camera_pos, task, world_map, compressed_data,
      world_changed, loaded_chunks,
                   active_chunks, entities, loading_state, deferred, ran,
                   last_pass>>
    /\ UNCHANGED tick_progress
    /\ UNCHANGED <<gen_vars, fn_vars, hash_vars>>

\* world.rs:226-231: the final callback(1.0), then the task's result is ready.
TaskCompletes ==
    /\ task = "running"
    /\ task' = "finished"
    /\ progress_tracker' = 70
    /\ UNCHANGED <<camera_pos, world_map, compressed_data,
      world_changed, loaded_chunks,
                   active_chunks, entities, loading_state, deferred, ran,
                   last_pass>>
    /\ UNCHANGED tick_progress
    /\ UNCHANGED <<gen_vars, fn_vars, hash_vars>>

\* render.rs:125-151: handle_camera_movement; <<0, 0>> is no key pressed.
HandleCameraMovement ==
    /\ "camera" \notin ran
    /\ ran' = ran \cup {"camera"}
    /\ \E dx \in {-1, 0, 1}, dy \in {-1, 0, 1} :
          /\ camera_pos[1] + dx * CamStep \in CamRange
          /\ camera_pos[2] + dy * CamStep \in CamRange
          /\ camera_pos' = <<camera_pos[1] + dx * CamStep,
                             camera_pos[2] + dy * CamStep>>
    /\ UNCHANGED <<task, progress_tracker, world_map, compressed_data,
      world_changed,
                   loaded_chunks, active_chunks, entities, loading_state,
                   deferred, last_pass>>
    /\ UNCHANGED tick_progress
    /\ UNCHANGED <<gen_vars, fn_vars, hash_vars>>

\* The install that queues the WorldMap alone.
install_commands_world_only(world) ==
    <<[resource |-> "WorldMap", value |-> world]>>

\* optimized_systems.rs:98, 115-116: the insert_resource commands queued for
\* a finished world, in their order
install_commands(world) ==
    <<[resource |-> "CompressedWorldData", value |-> from_world_map(world)],
      [resource |-> "WorldMap", value |-> world]>>

\* optimized_systems.rs:98, 115-116: the commands queued for the world the
\* task computes
generated_install == install_commands(generated_world)

\* A resource after the queued insert_resource commands are applied: the
\* value of the last command for it, or what it was.
RECURSIVE apply_inserts(_, _, _)
apply_inserts(commands, resource, current) ==
    IF commands = <<>> THEN current
    ELSE apply_inserts(Tail(commands), resource,
                       IF Head(commands).resource = resource
                       THEN <<Head(commands).value>>
                       ELSE current)

\* optimized_systems.rs:91: (progress * 0.9 + tracker * 0.1).max(tracker)
smoothed_progress(progress, tracked) ==
    Max((progress * 9 + tracked) \div 10, tracked)

\* loading.rs:154: the frames in which update_loading_messages writes the
\* progress
InRenderingPhase ==
    loading_state.world_ready /\ ~loading_state.first_frame_rendered

\* optimized_systems.rs:80-130: check_world_generation_system.  The task
\* entity exists until the despawn queued at line 117 is applied.  In the
\* frame that sets world_ready, update_loading_messages has run before this
\* system or is still to run: the schedule does not order the two.
CheckWorldGeneration ==
    /\ "check" \notin ran
    /\ IF task = "finished"
       THEN \E messages_ran \in {{}, {"messages"}} :
               ran' = ran \cup {"check"} \cup messages_ran
       ELSE ran' = ran \cup {"check"}
    /\ IF task = "finished"
       THEN /\ loading_state' =
                 [loading_state EXCEPT !.progress = 72, !.world_ready = TRUE]
            /\ deferred' =
                 [deferred EXCEPT !.install = generated_install]
            /\ task' = "polled"
       ELSE /\ loading_state' =
                 IF task = "running"
                 THEN [loading_state EXCEPT !.progress =
                          smoothed_progress(loading_state.progress,
                                            progress_tracker)]
                 ELSE loading_state
            /\ UNCHANGED <<deferred, task>>
    /\ UNCHANGED <<camera_pos, progress_tracker, world_map, compressed_data,
      world_changed,
                   loaded_chunks, active_chunks, entities, last_pass>>
    /\ UNCHANGED tick_progress
    /\ UNCHANGED <<gen_vars, fn_vars, hash_vars>>

\* optimized_systems.rs:143-150: no WorldMap resource yet.
StreamWithoutWorld ==
    /\ "stream" \notin ran
    /\ world_map = <<>>
    /\ ran' = ran \cup {"stream"}
    /\ loading_state' =
         IF loading_state.world_ready
         THEN [loading_state EXCEPT !.progress = 74]
         ELSE loading_state
    /\ last_pass' = [NoPass EXCEPT !.ran = TRUE]
    /\ UNCHANGED <<camera_pos, task, progress_tracker, world_map,
                   compressed_data, world_changed, loaded_chunks,
                   active_chunks, entities, deferred>>
    /\ UNCHANGED tick_progress
    /\ UNCHANGED <<gen_vars, fn_vars, hash_vars>>

\* optimized_systems.rs:160-256: the streaming pass of
\* optimized_render_world_tiles, with a WorldMap and the camera present.
\* Each local of the function is bound once, to its value, as the function's
\* let bindings are.
StreamingPass ==
    /\ "stream" \notin ran
    /\ world_map # <<>>
    /\ ran' = ran \cup {"stream"}
    /\ \E cleared \in {IF "stream" \in world_changed THEN <<>>
                        ELSE loaded_chunks},
          clear_despawns \in
              {IF "stream" \in world_changed
               THEN {e \in entities : e.kind \in {"tile", "env"}}
               ELSE {}},
          visible_chunks \in {calculate_visible_chunks(camera_pos)} :
       \E to_unload \in {chunks_to_unload(active_chunks, visible_chunks)} :
       \E unloaded \in {unload_chunks(cleared, to_unload)} :
       \E to_load \in {chunks_to_load(unloaded, visible_chunks)},
          reloaded \in {load_chunks(unloaded, visible_chunks, world_map[1])},
          despawned \in {clear_despawns \cup unload_despawns(cleared, to_unload)} :
       \E spawned \in {UNION {render_chunk(world_map[1], c) : c \in to_load}},
          in_loading \in {loading_state.world_ready
                             /\ ~loading_state.first_frame_rendered} :
           /\ loaded_chunks' = reloaded
           /\ active_chunks' = next_active_chunks(active_chunks, visible_chunks)
           /\ deferred' =
                [deferred EXCEPT
                    !.despawn = @ \cup despawned,
                    !.spawn = @ \cup spawned]
           /\ loading_state' =
                IF in_loading /\ Cardinality(to_load) > 0
                THEN [loading_state EXCEPT !.progress = 100,
                         !.first_frame_rendered = TRUE, !.is_complete = TRUE]
                ELSE IF in_loading
                THEN [loading_state EXCEPT !.progress = 80]
                ELSE loading_state
           /\ last_pass' =
                [ran |-> TRUE, streamed |-> TRUE, camera |-> camera_pos,
                 target |-> visible_chunks, unloaded |-> ToSet(to_unload),
                 loaded |-> to_load, despawned |-> despawned,
                 spawned |-> spawned,
                 total_chunks_to_load |->
                     total_chunks_to_load(unloaded, visible_chunks)]
    /\ world_changed' = world_changed \ {"stream"}
    /\ UNCHANGED <<camera_pos, task, progress_tracker, world_map,
                   compressed_data, entities>>
    /\ UNCHANGED tick_progress
    /\ UNCHANGED <<gen_vars, fn_vars, hash_vars>>

\* The time since the last frame, in hundredths of a second: a frame of the
\* display's rate, and a frame that stalled.
FrameDeltas == {2, 60}

\* loading.rs:149-179: update_loading_messages.  Between world_ready and
\* first_frame_rendered it advances the progress by half the frame time and
\* caps it at 0.99; the timer and the message are not part of the model.
\* Outside that window the system writes nothing the model holds and its
\* runs are stuttering steps; ran records it inside the window only.
UpdateLoadingMessages ==
    /\ "messages" \notin ran
    /\ InRenderingPhase
    /\ ran' = ran \cup {"messages"}
    /\ IF loading_state.world_ready /\ ~loading_state.first_frame_rendered
       THEN \E delta \in FrameDeltas :
               loading_state' =
                 [loading_state EXCEPT
                     !.progress = Min(@ + delta \div 2, 99)]
       ELSE UNCHANGED loading_state
    /\ UNCHANGED <<camera_pos, task, progress_tracker, world_map,
                   compressed_data, world_changed, loaded_chunks,
                   active_chunks, entities, deferred, last_pass>>
    /\ UNCHANGED tick_progress
    /\ UNCHANGED <<gen_vars, fn_vars, hash_vars>>

\* render.rs:23-72: render_world_tiles.  When the WorldMap has changed since
\* the system last ran, it despawns every tile and environment sprite and
\* spawns the sprites of the whole world.
RenderWorldTiles ==
    /\ "render" \notin ran
    /\ ran' = ran \cup {"render"}
    /\ IF world_map # <<>> /\ "render" \in world_changed
       THEN deferred' =
              [deferred EXCEPT
                  !.despawn = @ \cup {e \in entities : e.kind \in {"tile", "env"}},
                  !.spawn = @ \cup render_world(world_map[1])]
       ELSE UNCHANGED deferred
    /\ world_changed' = world_changed \ {"render"}
    /\ UNCHANGED <<camera_pos, task, progress_tracker, world_map,
                   compressed_data, loaded_chunks, active_chunks, entities,
                   loading_state, last_pass>>
    /\ UNCHANGED tick_progress
    /\ UNCHANGED <<gen_vars, fn_vars, hash_vars>>

\* Every system of the Update schedule has run in this frame.
AllSystemsRan ==
    ran \cup (IF InRenderingPhase THEN {} ELSE {"messages"}) = Systems

\* The end of the Update schedule: every system has run, and the queued
\* Commands are applied in the order they were queued (optimized_systems.rs:
\* 115-117 insert the resources and despawn the task entity; 167-170 and 198
\* despawn; render_chunk spawns).
ApplyDeferred ==
    /\ AllSystemsRan
    /\ ran' = {}
    /\ entities' = (entities \ deferred.despawn) \cup deferred.spawn
    /\ IF deferred.install # <<>>
       THEN /\ world_map' = apply_inserts(deferred.install, "WorldMap", world_map)
            /\ compressed_data' =
                 apply_inserts(deferred.install, "CompressedWorldData",
                               compressed_data)
            /\ world_changed' = {"stream", "render"}
            /\ task' = "despawned"
       ELSE UNCHANGED <<world_map, compressed_data, world_changed, task>>
    /\ deferred' = NoCommands
    /\ UNCHANGED <<camera_pos, progress_tracker, loaded_chunks, active_chunks,
                   loading_state, last_pass>>
    /\ UNCHANGED <<gen_vars, fn_vars, hash_vars>>

EndFrame == ApplyDeferred /\ UNCHANGED tick_progress

Init == AppInit /\ GenIdle /\ FnIdle /\ HashIdle

Next ==
    \/ TaskReportsProgress
    \/ TaskCompletes
    \/ HandleCameraMovement
    \/ CheckWorldGeneration
    \/ StreamWithoutWorld
    \/ RenderWorldTiles
    \/ UpdateLoadingMessages
    \/ EndFrame
    \/ StreamingPass

Spec == Init /\ [][Next]_vars

\* The frame loop observed: the end of a frame also records the progress the
\* frame ended with.
EndFrameObserved ==
    ApplyDeferred /\ tick_progress' = <<loading_state.progress>>

ProgressNext ==
    \/ TaskReportsProgress
    \/ TaskCompletes
    \/ HandleCameraMovement
    \/ CheckWorldGeneration
    \/ StreamWithoutWorld
    \/ RenderWorldTiles
    \/ UpdateLoadingMessages
    \/ EndFrameObserved
    \/ StreamingPass

ProgressSpec == Init /\ [][ProgressNext]_vars

\* ------------------------------------- generate_world_with_progress

ChunkIndex == 0..(total_chunks - 1)
WorkerId == 1..NumWorkers

\* Sub-blocks no pool thread has taken yet.
PendingChunks ==
    {i \in ChunkIndex :
        /\ i \notin DOMAIN chunk_results
        /\ \A w \in WorkerId : workers[w].chunk_idx # i}

RECURSIVE MergeTiles(_, _, _)
\* world.rs:221-223: tiles[x][y] = tile for the entries i.. of chunk_tiles
MergeTiles(grid, chunk_tiles, i) ==
    IF i > Len(chunk_tiles) THEN grid
    ELSE MergeTiles(
             [grid EXCEPT ![chunk_tiles[i][1]][chunk_tiles[i][2]] = chunk_tiles[i][3]],
             chunk_tiles, i + 1)

RECURSIVE CountWrites(_, _, _)
CountWrites(counts, chunk_tiles, i) ==
    IF i > Len(chunk_tiles) THEN counts
    ELSE CountWrites(
             [counts EXCEPT ![chunk_tiles[i][1]][chunk_tiles[i][2]] = @ + 1],
             chunk_tiles, i + 1)

\* world.rs:77-89: the minimum visible duration of each stage, milliseconds
stage_info == <<150, 120, 100, 100, 120, 100, 100, 80, 80, 50, 100>>

RECURSIVE cumulative_target(_)
\* world.rs:196-198: the durations of the first n stages, summed
cumulative_target(n) ==
    IF n = 0 THEN 0 ELSE cumulative_target(n - 1) + stage_info[n]

\* world.rs:91
total_target_time == cumulative_target(Len(stage_info))

\* world.rs:72
total_tiles == WORLD_SIZE * WORLD_SIZE

\* world.rs:182, 191: progress * 1.5 seconds, or the time elapsed if longer
target_elapsed(elapsed_total, count) ==
    Max(elapsed_total, (count * 1500) \div total_tiles)

RECURSIVE stage_loop(_, _, _)
\* world.rs:194-203: the loop from stage i on
stage_loop(target, i, stage) ==
    IF i > Len(stage_info) THEN stage
    ELSE IF target >= cumulative_target(i)
         THEN stage_loop(target, i + 1, Min(i, Len(stage_info) - 1))
         ELSE stage

\* world.rs:194-203
new_stage(target) == stage_loop(target, 1, 0)

\* The fraction without the cap of world.rs:209.
time_progress_uncapped(target) ==
    (target * 100) \div total_target_time

\* world.rs:209: the fraction handed to the callback, hundredths
time_progress(target) ==
    Min((target * 100) \div total_target_time, 70)

\* A lock attempt that succeeds whoever holds the mutex.
try_lock_unguarded(mutex) == TRUE

\* Mutex::try_lock succeeds when no thread holds the mutex.
try_lock(mutex) == mutex.holder = 0

\* world.rs:115-177: the chunk_tiles of every sub-block, per seed
generated_sub_blocks ==
    [s \in {0, MaxSeed} |-> [i \in ChunkIndex |-> sub_block_tiles(s, i)]]

\* world.rs:58-112: the call has allocated the grid and the trackers and
\* handed the sub-block indices to the pool.
GenInit ==
    /\ gen_seed \in {0, MaxSeed}
    /\ gen_pc = "parallel"
    /\ workers = [w \in WorkerId |-> [pc |-> "idle", chunk_idx |-> -1, chunk_tiles |-> <<>>]]
    /\ chunk_results = <<>>
    /\ gen_tracker = [count |-> 0, last |-> 0, holder |-> 0]
    /\ gen_clock = 0
    /\ current_stage = [stage |-> 0, holder |-> 0]
    /\ callback = [active |-> 0, calls |-> <<>>]
    /\ tiles = [x \in TileIndex |-> [y \in TileIndex |-> PlaceholderTile]]
    /\ write_count = [x \in TileIndex |-> [y \in TileIndex |-> 0]]
    /\ merge_idx = 0
    /\ world_out = <<>>

\* Instant::now advances while the pool works.
ClockAdvances ==
    /\ gen_pc = "parallel"
    /\ gen_clock < MaxTicks * ClockStep
    /\ gen_clock' = gen_clock + ClockStep
    /\ UNCHANGED <<gen_seed, gen_pc, workers, chunk_results, gen_tracker,
                   current_stage, callback, tiles, write_count, merge_idx,
                   world_out>>
    /\ UNCHANGED <<app_vars, fn_vars, hash_vars>>

\* world.rs:115-177: a pool thread takes a sub-block (in any order: the pool
\* steals work) and computes its chunk_tiles.
WorkerGenerates(w) ==
    /\ gen_pc = "parallel"
    /\ workers[w].pc = "idle"
    /\ \E i \in PendingChunks :
          workers' = [workers EXCEPT ![w] =
                        [pc |-> "generated", chunk_idx |-> i,
                         chunk_tiles |-> generated_sub_blocks[gen_seed][i]]]
    /\ UNCHANGED <<gen_seed, gen_pc, chunk_results, gen_tracker, gen_clock,
                   current_stage, callback, tiles, write_count, merge_idx,
                   world_out>>
    /\ UNCHANGED <<app_vars, fn_vars, hash_vars>>

\* world.rs:180-182: try_lock succeeds, the counter takes the sub-block's tiles
WorkerLocksTracker(w) ==
    /\ workers[w].pc = "generated"
    /\ try_lock(gen_tracker)
    /\ gen_tracker' = [gen_tracker EXCEPT
                          !.count = @ + Len(workers[w].chunk_tiles),
                          !.holder = w]
    /\ workers' = [workers EXCEPT ![w].pc = "locked"]
    /\ UNCHANGED <<gen_seed, gen_pc, chunk_results, gen_clock, current_stage,
                   callback, tiles, write_count, merge_idx, world_out>>
    /\ UNCHANGED <<app_vars, fn_vars, hash_vars>>

\* world.rs:216-217: the closure returns chunk_tiles; collect stores it at
\* the sub-block's index.
Collected(w) ==
    [i \in (DOMAIN chunk_results) \cup {workers[w].chunk_idx} |->
        IF i = workers[w].chunk_idx THEN workers[w].chunk_tiles
        ELSE chunk_results[i]]

\* world.rs:180, 214-216: try_lock fails (another thread holds the tracker):
\* the progress update is skipped and the closure returns.
WorkerSkipsTracker(w) ==
    /\ workers[w].pc = "generated"
    /\ ~try_lock(gen_tracker)
    /\ chunk_results' = Collected(w)
    /\ workers' = [workers EXCEPT ![w] =
                     [pc |-> "idle", chunk_idx |-> -1, chunk_tiles |-> <<>>]]
    /\ gen_pc' = IF DOMAIN chunk_results' = ChunkIndex THEN "merging" ELSE "parallel"
    /\ UNCHANGED <<gen_seed, gen_tracker, gen_clock, current_stage, callback,
                   tiles, write_count, merge_idx, world_out>>
    /\ UNCHANGED <<app_vars, fn_vars, hash_vars>>

\* The test that lets every update through.
interval_elapsed_always(elapsed) == TRUE

\* world.rs:186: elapsed >= 0.05, in milliseconds
interval_elapsed(elapsed) == elapsed >= 50

\* world.rs:185-187: the callback is due when 50 ms have passed since
\* tracker.1 and the stage mutex can be taken.
CallbackDue ==
    /\ interval_elapsed(gen_clock - gen_tracker.last)
    /\ try_lock(current_stage)

\* world.rs:185-210: under the tracker guard and the stage guard, the stage
\* and the fraction are computed and the callback is entered.
WorkerCallsBack(w) ==
    /\ workers[w].pc = "locked"
    /\ CallbackDue
    /\ \E target \in {target_elapsed(gen_clock, gen_tracker.count)} :
          /\ current_stage' = [stage |-> new_stage(target), holder |-> w]
          /\ callback' =
               [active |-> callback.active + 1,
                calls |-> Append(callback.calls,
                                 [progress |-> time_progress(target),
                                  stage |-> new_stage(target),
                                  worker |-> w,
                                  at |-> gen_clock])]
    /\ workers' = [workers EXCEPT ![w].pc = "in_callback"]
    /\ UNCHANGED <<gen_seed, gen_pc, chunk_results, gen_tracker, gen_clock,
                   tiles, write_count, merge_idx, world_out>>
    /\ UNCHANGED <<app_vars, fn_vars, hash_vars>>

\* world.rs:210-212: the callback returns, tracker.1 takes the instant and
\* the stage guard is dropped.
WorkerCallbackReturns(w) ==
    /\ workers[w].pc = "in_callback"
    /\ callback' = [callback EXCEPT !.active = @ - 1]
    /\ gen_tracker' = [gen_tracker EXCEPT !.last = gen_clock]
    /\ current_stage' = [current_stage EXCEPT !.holder = 0]
    /\ workers' = [workers EXCEPT ![w].pc = "reported"]
    /\ UNCHANGED <<gen_seed, gen_pc, chunk_results, gen_clock, tiles,
                   write_count, merge_idx, world_out>>
    /\ UNCHANGED <<app_vars, fn_vars, hash_vars>>

\* world.rs:214-216: the tracker guard is dropped and the closure returns,
\* after the callback or without it when it is not due.
WorkerReturns(w) ==
    /\ IF workers[w].pc = "locked" THEN ~CallbackDue
       ELSE workers[w].pc = "reported"
    /\ gen_tracker' = [gen_tracker EXCEPT !.holder = 0]
    /\ chunk_results' = Collected(w)
    /\ workers' = [workers EXCEPT ![w] =
                     [pc |-> "idle", chunk_idx |-> -1, chunk_tiles |-> <<>>]]
    /\ gen_pc' = IF DOMAIN chunk_results' = ChunkIndex THEN "merging" ELSE "parallel"
    /\ UNCHANGED <<gen_seed, gen_clock, current_stage, callback, tiles,
                   write_count, merge_idx, world_out>>
    /\ UNCHANGED <<app_vars, fn_vars, hash_vars>>

\* world.rs:220-224: one iteration of the outer merge loop
MergeChunk ==
    /\ gen_pc = "merging"
    /\ merge_idx < total_chunks
    /\ tiles' = MergeTiles(tiles, chunk_results[merge_idx], 1)
    /\ write_count' = CountWrites(write_count, chunk_results[merge_idx], 1)
    /\ merge_idx' = merge_idx + 1
    /\ UNCHANGED <<gen_seed, gen_pc, workers, chunk_results, gen_tracker,
                   gen_clock, current_stage, callback, world_out>>
    /\ UNCHANGED <<app_vars, fn_vars, hash_vars>>

\* world.rs:226-229: the final callback is entered with 1.0 and the last
\* stage message
GenFinalCallback ==
    /\ gen_pc = "merging"
    /\ merge_idx = total_chunks
    /\ callback' =
         [active |-> callback.active + 1,
          calls |-> Append(callback.calls,
                           [progress |-> 100, stage |-> Len(stage_info) - 1,
                            worker |-> 0, at |-> gen_clock])]
    /\ gen_pc' = "final"
    /\ UNCHANGED <<gen_seed, workers, chunk_results, gen_tracker, gen_clock,
                   current_stage, tiles, write_count, merge_idx, world_out>>
    /\ UNCHANGED <<app_vars, fn_vars, hash_vars>>

\* world.rs:229-231: the final callback returns, and the WorldMap is returned
GenReturns ==
    /\ gen_pc = "final"
    /\ callback' = [callback EXCEPT !.active = @ - 1]
    /\ world_out' = <<[tiles |-> tiles, seed |-> gen_seed]>>
    /\ gen_pc' = "done"
    /\ UNCHANGED <<gen_seed, workers, chunk_results, gen_tracker, gen_clock,
                   current_stage, tiles, write_count, merge_idx>>
    /\ UNCHANGED <<app_vars, fn_vars, hash_vars>>

GenNext ==
    \/ ClockAdvances
    \/ \E w \in WorkerId : WorkerGenerates(w)
    \/ \E w \in WorkerId : WorkerLocksTracker(w)
    \/ \E w \in WorkerId : WorkerSkipsTracker(w)
    \/ \E w \in WorkerId : WorkerCallsBack(w)
    \/ \E w \in WorkerId : WorkerCallbackReturns(w)
    \/ \E w \in WorkerId : WorkerReturns(w)
    \/ MergeChunk
    \/ GenFinalCallback
    \/ GenReturns

GenSpecInit == AppIdle /\ GenInit /\ FnIdle /\ HashIdle

GenSpec == GenSpecInit /\ [][GenNext]_vars

\* ------------------------------- single calls of the chunk arithmetic

LastChunk == (WORLD_SIZE - 1) \div CHUNK_SIZE
ChunkCoord == (-ChunkPad)..(LastChunk + ChunkPad)

\* A tile lies in the inclusive-exclusive range b = <<sx, sy, ex, ey>>.
InBounds(tile, b) ==
    b[1] <= tile[1] /\ tile[1] < b[3] /\ b[2] <= tile[2] /\ tile[2] < b[4]

\* A chunk coordinate and a tile are chosen; nothing is called yet.
BoundsInit ==
    \E c \in ChunkCoord \X ChunkCoord, t \in TileIndex \X TileIndex :
        bounds_call = <<[pc |-> "start", chunk |-> c, tile |-> t,
                         bounds |-> <<0, 0, 0, 0>>, tiles_read |-> {},
                         entities |-> {}]>>

\* optimization.rs:212-226
CallChunkToWorldBounds ==
    /\ bounds_call # <<>>
    /\ bounds_call[1].pc = "start"
    /\ bounds_call' =
         <<[bounds_call[1] EXCEPT
               !.pc = "bounds",
               !.bounds = chunk_to_world_bounds(bounds_call[1].chunk[1],
                                                bounds_call[1].chunk[2])]>>
    /\ UNCHANGED <<biome_call, compress_call, id_call, resource_call, field_call>>
    /\ UNCHANGED <<app_vars, gen_vars, hash_vars>>
    /\ UNCHANGED <<stream_call, view_call, pack_call, new_call>>

\* optimized_systems.rs:259-350, on the world the application generates
CallRenderChunk ==
    /\ bounds_call # <<>>
    /\ bounds_call[1].pc = "bounds"
    /\ bounds_call' =
         <<[bounds_call[1] EXCEPT
               !.pc = "rendered",
               !.tiles_read = render_chunk_tiles(bounds_call[1].chunk),
               !.entities = render_chunk(generated_world,
                                         bounds_call[1].chunk)]>>
    /\ UNCHANGED <<biome_call, compress_call, id_call, resource_call, field_call>>
    /\ UNCHANGED <<app_vars, gen_vars, hash_vars>>
    /\ UNCHANGED <<stream_call, view_call, pack_call, new_call>>

BoundsNext == CallChunkToWorldBounds \/ CallRenderChunk

BoundsSpecInit ==
    /\ AppIdle /\ GenIdle /\ HashIdle /\ BoundsInit
    /\ stream_call = <<>> /\ view_call = <<>>
    /\ pack_call = <<>> /\ new_call = <<>>
    /\ biome_call = <<>> /\ compress_call = <<>> /\ id_call = <<>>
    /\ resource_call = <<>> /\ field_call = <<>>

BoundsSpec == BoundsSpecInit /\ [][BoundsNext]_vars

\* ----------------------------------------- single calls of the classifier

Level == {k * LevelStep : k \in 0..(100 \div LevelStep)}

BiomeInit ==
    \E e \in Level, t \in Level, m \in Level :
        biome_call = <<[elevation |-> e, temperature |-> t, moisture |-> m,
                        result |-> "pending"]>>

\* world.rs:166 calls world.rs:235-283
CallDetermineBiome ==
    /\ biome_call # <<>>
    /\ biome_call[1].result = "pending"
    /\ biome_call' =
         <<[biome_call[1] EXCEPT !.result =
               determine_biome_fast(biome_call[1].elevation,
                                    biome_call[1].temperature,
                                    biome_call[1].moisture)]>>
    /\ UNCHANGED <<bounds_call, compress_call, id_call, resource_call, field_call>>
    /\ UNCHANGED <<app_vars, gen_vars, hash_vars>>
    /\ UNCHANGED <<stream_call, view_call, pack_call, new_call>>

BiomeNext == CallDetermineBiome

BiomeSpecInit ==
    /\ AppIdle /\ GenIdle /\ HashIdle /\ BiomeInit
    /\ stream_call = <<>> /\ view_call = <<>>
    /\ pack_call = <<>> /\ new_call = <<>>
    /\ bounds_call = <<>> /\ compress_call = <<>> /\ id_call = <<>>
    /\ resource_call = <<>> /\ field_call = <<>>

BiomeSpec == BiomeSpecInit /\ [][BiomeNext]_vars

\* --------------------------- single calls on a CompressedWorldData

\* The WorldMaps the generator returns for the seeds it is run with.
generated_worlds ==
    [s \in (0..MaxSeed) \cup {APP_SEED} |-> generate_world(s)]

LookupCoord == 0..(WORLD_SIZE - 1 + CoordPad)

\* A lookup that has returned v.  Neither lookup has a path that ends in a
\* failure: get_biome guards its index (optimization.rs:138-140) and
\* get_elevation uses get(..).unwrap_or (optimization.rs:154).
Returned(v) == [outcome |-> "value", value |-> v]

\* A generated WorldMap and a coordinate are chosen; nothing is built yet;
\* biome and elevation are <<>> until the lookup has returned.
CompressInit ==
    \E s \in DOMAIN generated_worlds, x \in LookupCoord, y \in LookupCoord :
        compress_call = <<[pc |-> "start", seed |-> s, x |-> x, y |-> y,
                           data |-> <<>>, biome |-> <<>>,
                           elevation |-> <<>>]>>

\* optimization.rs:93-131, as optimized_systems.rs:104 calls it
CallFromWorldMap ==
    /\ compress_call # <<>>
    /\ compress_call[1].pc = "start"
    /\ compress_call' =
         <<[compress_call[1] EXCEPT
               !.pc = "built",
               !.data = from_world_map(generated_worlds[compress_call[1].seed])]>>
    /\ UNCHANGED <<bounds_call, biome_call, id_call, resource_call, field_call>>
    /\ UNCHANGED <<app_vars, gen_vars, hash_vars>>
    /\ UNCHANGED <<stream_call, view_call, pack_call, new_call>>

\* optimization.rs:133-148
CallGetBiome ==
    /\ compress_call # <<>>
    /\ compress_call[1].pc = "built"
    /\ compress_call[1].biome = <<>>
    /\ compress_call' =
         <<[compress_call[1] EXCEPT !.biome =
               <<Returned(get_biome(compress_call[1].data, compress_call[1].x,
                                    compress_call[1].y))>>]>>
    /\ UNCHANGED <<bounds_call, biome_call, id_call, resource_call, field_call>>
    /\ UNCHANGED <<app_vars, gen_vars, hash_vars>>
    /\ UNCHANGED <<stream_call, view_call, pack_call, new_call>>

\* optimization.rs:150-155
CallGetElevation ==
    /\ compress_call # <<>>
    /\ compress_call[1].pc = "built"
    /\ compress_call[1].elevation = <<>>
    /\ compress_call' =
         <<[compress_call[1] EXCEPT !.elevation =
               <<Returned(get_elevation(compress_call[1].data,
                                        compress_call[1].x,
                                        compress_call[1].y))>>]>>
    /\ UNCHANGED <<bounds_call, biome_call, id_call, resource_call, field_call>>
    /\ UNCHANGED <<app_vars, gen_vars, hash_vars>>
    /\ UNCHANGED <<stream_call, view_call, pack_call, new_call>>

CompressNext == CallFromWorldMap \/ CallGetBiome \/ CallGetElevation

CompressSpecInit ==
    /\ AppIdle /\ GenIdle /\ HashIdle /\ CompressInit
    /\ stream_call = <<>> /\ view_call = <<>>
    /\ pack_call = <<>> /\ new_call = <<>>
    /\ bounds_call = <<>> /\ biome_call = <<>> /\ id_call = <<>>
    /\ resource_call = <<>> /\ field_call = <<>>

CompressSpec == CompressSpecInit /\ [][CompressNext]_vars

\* ------------------------------------ the biome lookup of a packed id

\* The values of a u8.
Byte == 0..255

\* A CompressedWorldData whose first byte is any byte (it may not be one that
\* from_world_map packs), and the nibble to read: tile (0, 0) or (0, 1).
IdInit ==
    \E b \in Byte, y \in {0, 1} :
        id_call = <<[data |-> [biomes |-> <<b>>, elevation_samples |-> <<>>,
                               sample_resolution |-> SAMPLE_RESOLUTION],
                     y |-> y, id |-> <<>>, biome |-> <<>>]>>

\* optimization.rs:133-148: the unpacked 4-bit id
CallGetBiomeId ==
    /\ id_call # <<>>
    /\ id_call[1].id = <<>>
    /\ id_call' =
         <<[id_call[1] EXCEPT !.id =
               <<get_biome(id_call[1].data, 0, id_call[1].y)>>]>>
    /\ UNCHANGED <<bounds_call, biome_call, compress_call, resource_call,
                   field_call>>
    /\ UNCHANGED <<app_vars, gen_vars, hash_vars>>
    /\ UNCHANGED <<stream_call, view_call, pack_call, new_call>>

\* biome.rs:95-113
CallFromId ==
    /\ id_call # <<>>
    /\ id_call[1].id # <<>>
    /\ id_call[1].biome = <<>>
    /\ id_call' =
         <<[id_call[1] EXCEPT !.biome = <<from_id(id_call[1].id[1])>>]>>
    /\ UNCHANGED <<bounds_call, biome_call, compress_call, resource_call,
                   field_call>>
    /\ UNCHANGED <<app_vars, gen_vars, hash_vars>>
    /\ UNCHANGED <<stream_call, view_call, pack_call, new_call>>

IdNext == CallGetBiomeId \/ CallFromId

IdSpecInit ==
    /\ AppIdle /\ GenIdle /\ HashIdle /\ IdInit
    /\ stream_call = <<>> /\ view_call = <<>>
    /\ pack_call = <<>> /\ new_call = <<>>
    /\ bounds_call = <<>> /\ biome_call = <<>> /\ compress_call = <<>>
    /\ resource_call = <<>> /\ field_call = <<>>

IdSpec == IdSpecInit /\ [][IdNext]_vars

\* --------------------------- two biomes packed into a byte and back

\* A WorldMap reduced to the two tiles that share the first byte.
pair_map(biome1, biome2) ==
    [tiles |-> [x \in {0} |->
                  [y \in {0, 1} |->
                      [biome |-> IF y = 0 THEN biome1 ELSE biome2]]]]

\* Any two biomes as the tiles (0, 0) and (0, 1); each later field is <<>>
\* until its step has run.
PackInit ==
    \E biome1 \in BiomeType, biome2 \in BiomeType :
        pack_call = <<[biome1 |-> biome1, biome2 |-> biome2, ids |-> <<>>,
                       packed |-> <<>>, nibbles |-> <<>>, biomes |-> <<>>]>>

\* biome.rs:76-93
CallToId ==
    /\ pack_call # <<>>
    /\ pack_call[1].ids = <<>>
    /\ pack_call' =
         <<[pack_call[1] EXCEPT
               !.ids = <<to_id(pack_call[1].biome1), to_id(pack_call[1].biome2)>>]>>
    /\ UNCHANGED <<bounds_call, biome_call, compress_call, id_call,
                   resource_call, field_call, stream_call, view_call, new_call>>
    /\ UNCHANGED <<app_vars, gen_vars, hash_vars>>

\* optimization.rs:101-112: the byte pushed for the tiles (0, 0) and (0, 1)
CallPackByte ==
    /\ pack_call # <<>>
    /\ pack_call[1].ids # <<>>
    /\ pack_call[1].packed = <<>>
    /\ pack_call' =
         <<[pack_call[1] EXCEPT
               !.packed = <<packed_byte(pair_map(pack_call[1].biome1,
                                                 pack_call[1].biome2), 0, 0)>>]>>
    /\ UNCHANGED <<bounds_call, biome_call, compress_call, id_call,
                   resource_call, field_call, stream_call, view_call, new_call>>
    /\ UNCHANGED <<app_vars, gen_vars, hash_vars>>

\* optimization.rs:133-148: get_biome(0, 0) and get_biome(0, 1)
CallUnpackNibbles ==
    /\ pack_call # <<>>
    /\ pack_call[1].packed # <<>>
    /\ pack_call[1].nibbles = <<>>
    /\ \E data \in {[biomes |-> pack_call[1].packed, elevation_samples |-> <<>>,
                      sample_resolution |-> SAMPLE_RESOLUTION]} :
          pack_call' =
            <<[pack_call[1] EXCEPT
                  !.nibbles = <<get_biome(data, 0, 0), get_biome(data, 0, 1)>>]>>
    /\ UNCHANGED <<bounds_call, biome_call, compress_call, id_call,
                   resource_call, field_call, stream_call, view_call, new_call>>
    /\ UNCHANGED <<app_vars, gen_vars, hash_vars>>

\* biome.rs:95-113, on both nibbles
CallFromIdOfNibbles ==
    /\ pack_call # <<>>
    /\ pack_call[1].nibbles # <<>>
    /\ pack_call[1].biomes = <<>>
    /\ pack_call' =
         <<[pack_call[1] EXCEPT
               !.biomes = <<from_id(pack_call[1].nibbles[1]),
                            from_id(pack_call[1].nibbles[2])>>]>>
    /\ UNCHANGED <<bounds_call, biome_call, compress_call, id_call,
                   resource_call, field_call, stream_call, view_call, new_call>>
    /\ UNCHANGED <<app_vars, gen_vars, hash_vars>>

PackNext ==
    CallToId \/ CallPackByte \/ CallUnpackNibbles \/ CallFromIdOfNibbles

PackSpecInit ==
    /\ AppIdle /\ GenIdle /\ HashIdle /\ PackInit
    /\ bounds_call = <<>> /\ biome_call = <<>> /\ compress_call = <<>>
    /\ id_call = <<>> /\ resource_call = <<>> /\ field_call = <<>>
    /\ stream_call = <<>> /\ view_call = <<>> /\ new_call = <<>>

PackSpec == PackSpecInit /\ [][PackNext]_vars

\* ------------------------------------ single calls of WorldGenerator::new

\* world.rs:33: the seed is a u32, held as its two 16-bit halves <<high, low>>
Half == 65536

\* The u32 of a number below Half * Half
u32(n) == <<n \div Half, n % Half>>

\* The seeds a call is made with: the SeedPad + 1 lowest values of a u32,
\* the application's seed, the SeedPad + 1 values up to the end of the low
\* half, and the SeedPad + 1 highest values.
SeedSamples ==
    {u32(n) : n \in (0..SeedPad) \cup {APP_SEED}}
        \cup {<<high, Half - 1 - k>> : high \in {0, Half - 1}, k \in 0..SeedPad}

\* world.rs:40, 43: seed + n on a u32, n below Half.  The sum that does not
\* fit panics in a build with overflow checks (<<>>) and wraps in a build
\* without.
u32_add(a, n, overflow_checks) ==
    LET low == a[2] + n
        high == a[1] + low \div Half
    IN  IF high < Half THEN <<<<high, low % Half>>>>
        ELSE IF overflow_checks THEN <<>>
        ELSE <<<<high % Half, low % Half>>>>

\* A build with or without overflow checks, and the argument: None (<<>>) or
\* Some(seed).  The seed of a noise field is <<>> until it has been computed.
NewInit ==
    \E overflow_checks \in BOOLEAN,
       arg \in {<<>>} \cup {<<seed>> : seed \in SeedSamples} :
        new_call = <<[overflow_checks |-> overflow_checks, arg |-> arg,
                      pc |-> "unwrap", seed |-> <<>>,
                      elevation_seed |-> <<>>, temperature_seed |-> <<>>,
                      moisture_seed |-> <<>>]>>

\* world.rs:35: the given seed, or any u32 from the thread's generator
NewUnwrapSeed ==
    /\ new_call # <<>>
    /\ new_call[1].pc = "unwrap"
    /\ \E seed \in (IF new_call[1].arg = <<>> THEN SeedSamples
                     ELSE {new_call[1].arg[1]}) :
          new_call' =
            <<[new_call[1] EXCEPT !.seed = <<seed>>, !.pc = "elevation"]>>
    /\ UNCHANGED <<bounds_call, biome_call, compress_call, id_call,
                   resource_call, field_call, stream_call, view_call,
                   pack_call>>
    /\ UNCHANGED <<app_vars, gen_vars, hash_vars>>

\* world.rs:37-38
NewElevationNoise ==
    /\ new_call # <<>>
    /\ new_call[1].pc = "elevation"
    /\ new_call' =
         <<[new_call[1] EXCEPT !.elevation_seed = new_call[1].seed,
                               !.pc = "temperature"]>>
    /\ UNCHANGED <<bounds_call, biome_call, compress_call, id_call,
                   resource_call, field_call, stream_call, view_call,
                   pack_call>>
    /\ UNCHANGED <<app_vars, gen_vars, hash_vars>>

\* world.rs:40-41
NewTemperatureNoise ==
    /\ new_call # <<>>
    /\ new_call[1].pc = "temperature"
    /\ \E sum \in {u32_add(new_call[1].seed[1], 1,
                            new_call[1].overflow_checks)} :
          new_call' =
            <<[new_call[1] EXCEPT
                  !.temperature_seed = sum,
                  !.pc = IF sum = <<>> THEN "panicked" ELSE "moisture"]>>
    /\ UNCHANGED <<bounds_call, biome_call, compress_call, id_call,
                   resource_call, field_call, stream_call, view_call,
                   pack_call>>
    /\ UNCHANGED <<app_vars, gen_vars, hash_vars>>

\* world.rs:43-44
NewMoistureNoise ==
    /\ new_call # <<>>
    /\ new_call[1].pc = "moisture"
    /\ \E sum \in {u32_add(new_call[1].seed[1], 2,
                            new_call[1].overflow_checks)} :
          new_call' =
            <<[new_call[1] EXCEPT
                  !.moisture_seed = sum,
                  !.pc = IF sum = <<>> THEN "panicked" ELSE "construct"]>>
    /\ UNCHANGED <<bounds_call, biome_call, compress_call, id_call,
                   resource_call, field_call, stream_call, view_call,
                   pack_call>>
    /\ UNCHANGED <<app_vars, gen_vars, hash_vars>>

\* world.rs:46-51
NewReturns ==
    /\ new_call # <<>>
    /\ new_call[1].pc = "construct"
    /\ new_call' = <<[new_call[1] EXCEPT !.pc = "returned"]>>
    /\ UNCHANGED <<bounds_call, biome_call, compress_call, id_call,
                   resource_call, field_call, stream_call, view_call,
                   pack_call>>
    /\ UNCHANGED <<app_vars, gen_vars, hash_vars>>

NewNext ==
    \/ NewUnwrapSeed
    \/ NewElevationNoise
    \/ NewTemperatureNoise
    \/ NewMoistureNoise
    \/ NewReturns

NewSpecInit ==
    /\ AppIdle /\ GenIdle /\ HashIdle /\ NewInit
    /\ bounds_call = <<>> /\ biome_call = <<>> /\ compress_call = <<>>
    /\ id_call = <<>> /\ resource_call = <<>> /\ field_call = <<>>
    /\ stream_call = <<>> /\ view_call = <<>> /\ pack_call = <<>>

NewSpec == NewSpecInit /\ [][NewNext]_vars

\* ---------------------------- single calls of generate_resources_fast

GenSeeds == (0..MaxSeed) \cup {APP_SEED}

\* A biome, a seed and a tile are chosen; nothing is called yet.
ResourceInit ==
    \E b \in BiomeType, s \in GenSeeds, x \in TileIndex, y \in TileIndex :
        resource_call = <<[biome |-> b, seed |-> s, x |-> x, y |-> y,
                           results |-> <<>>]>>

\* world.rs:175 calls world.rs:286-302; the list is evaluated twice.
CallGenerateResources ==
    /\ resource_call # <<>>
    /\ Len(resource_call[1].results) < 2
    /\ resource_call' =
         <<[resource_call[1] EXCEPT !.results =
               Append(@, generate_resources_fast(resource_call[1].biome,
                                                 resource_call[1].seed,
                                                 resource_call[1].x,
                                                 resource_call[1].y))]>>
    /\ UNCHANGED <<bounds_call, biome_call, compress_call, id_call, field_call>>
    /\ UNCHANGED <<app_vars, gen_vars, hash_vars>>
    /\ UNCHANGED <<stream_call, view_call, pack_call, new_call>>

ResourceNext == CallGenerateResources

ResourceSpecInit ==
    /\ AppIdle /\ GenIdle /\ HashIdle /\ ResourceInit
    /\ stream_call = <<>> /\ view_call = <<>>
    /\ pack_call = <<>> /\ new_call = <<>>
    /\ bounds_call = <<>> /\ biome_call = <<>> /\ compress_call = <<>>
    /\ id_call = <<>> /\ field_call = <<>>

ResourceSpec == ResourceSpecInit /\ [][ResourceNext]_vars

\* ------------------------------- the three fields of one tile, by sample

\* The values a noise sample takes: the multiples of 0.2 in [-1, 1].
NoiseValue == {20 * k : k \in -5..5}

\* A row and the four samples world.rs:144, 155 and 162 read for one tile.
FieldInit ==
    \E y \in TileIndex, e0 \in NoiseValue, e1 \in NoiseValue,
       t \in NoiseValue, m \in NoiseValue :
        field_call = <<[y |-> y, octave0 |-> e0, octave1 |-> e1,
                        temperature_noise |-> t, moisture_noise |-> m,
                        result |-> <<>>]>>

\* world.rs:136-164: the three fields of the tile
CallGenerateFields ==
    /\ field_call # <<>>
    /\ field_call[1].result = <<>>
    /\ field_call' =
         <<[field_call[1] EXCEPT !.result =
               <<[elevation |-> elevation_of(field_call[1].octave0,
                                             field_call[1].octave1),
                  temperature |-> temperature_of(field_call[1].y,
                                                 field_call[1].temperature_noise),
                  moisture |-> moisture_of(field_call[1].moisture_noise)]>>]>>
    /\ UNCHANGED <<bounds_call, biome_call, compress_call, id_call, resource_call>>
    /\ UNCHANGED <<app_vars, gen_vars, hash_vars>>
    /\ UNCHANGED <<stream_call, view_call, pack_call, new_call>>

FieldNext == CallGenerateFields

FieldSpecInit ==
    /\ AppIdle /\ GenIdle /\ HashIdle /\ FieldInit
    /\ stream_call = <<>> /\ view_call = <<>>
    /\ pack_call = <<>> /\ new_call = <<>>
    /\ bounds_call = <<>> /\ biome_call = <<>> /\ compress_call = <<>>
    /\ id_call = <<>> /\ resource_call = <<>>

FieldSpec == FieldSpecInit /\ [][FieldNext]_vars

\* ------------------- single runs of the unload and load loops of a pass

\* The coordinates the loops are run on.
StreamCoords == <<<<0, 0>>, <<0, 1>>, <<1, 0>>>>

\* The coordinates of StreamCoords chosen by keep, in the order of StreamCoords
Chosen(keep) == SelectSeq(StreamCoords, LAMBDA c : c \in keep)

\* optimization.rs:14-23: a ChunkManager and a target set.  Any of the
\* coordinates has a Chunk entry or not, is in active_chunks or not, and is in
\* the target or not; an entry holds what render_chunk returned.
StreamInit ==
    \E entries \in SUBSET ToSet(StreamCoords),
       active \in SUBSET ToSet(StreamCoords),
       visible \in SUBSET ToSet(StreamCoords) :
        stream_call =
            <<[loaded |-> [c \in entries |->
                             [entities |-> render_chunk(generated_world, c),
                              is_loaded |-> TRUE]],
               active |-> Chosen(active),
               visible |-> Chosen(visible),
               result |-> <<>>]>>

\* optimized_systems.rs:187-221: the unload loop, the update of
\* active_chunks and the load loop
CallStreamLoops ==
    /\ stream_call # <<>>
    /\ stream_call[1].result = <<>>
    /\ \E call \in {stream_call[1]} :
       \E to_unload \in {chunks_to_unload(call.active, call.visible)} :
       \E unloaded \in {unload_chunks(call.loaded, to_unload)} :
          stream_call' =
              <<[call EXCEPT !.result =
                   <<[to_unload |-> to_unload,
                      despawned |-> unload_despawns(call.loaded, to_unload),
                      active |-> next_active_chunks(call.active, call.visible),
                      to_load |-> chunks_to_load(unloaded, call.visible),
                      ops |-> pass_ops(call.loaded, call.active, call.visible),
                      loaded |-> load_chunks(unloaded, call.visible,
                                             generated_world)]>>]>>
    /\ UNCHANGED <<bounds_call, biome_call, compress_call, id_call,
                   resource_call, field_call, view_call, pack_call,
                   new_call>>
    /\ UNCHANGED <<app_vars, gen_vars, hash_vars>>

StreamNext == CallStreamLoops

StreamSpecInit ==
    /\ AppIdle /\ GenIdle /\ HashIdle /\ StreamInit
    /\ bounds_call = <<>> /\ biome_call = <<>> /\ compress_call = <<>>
    /\ id_call = <<>> /\ resource_call = <<>> /\ field_call = <<>>
    /\ view_call = <<>> /\ pack_call = <<>> /\ new_call = <<>>

StreamSpec == StreamSpecInit /\ [][StreamNext]_vars

\* ------------------------------ single calls of calculate_visible_chunks

\* The viewer positions over the world: from the translation of the first
\* tile to the translation of the last one, on both axes.
ViewRange ==
    tile_translation(0, 0)[1]..tile_translation(WORLD_SIZE - 1, 0)[1]

\* A viewer position is chosen; result is <<>> until the call has returned.
ViewInit ==
    \E px \in ViewRange, py \in ViewRange :
        view_call = <<[camera_pos |-> <<px, py>>, result |-> <<>>]>>

\* optimization.rs:193-206
CallCalculateVisibleChunks ==
    /\ view_call # <<>>
    /\ view_call[1].result = <<>>
    /\ view_call' =
           <<[view_call[1] EXCEPT
                 !.result = <<calculate_visible_chunks(view_call[1].camera_pos)>>]>>
    /\ UNCHANGED <<bounds_call, biome_call, compress_call, id_call,
                   resource_call, field_call, stream_call, pack_call,
                   new_call>>
    /\ UNCHANGED <<app_vars, gen_vars, hash_vars>>

ViewNext == CallCalculateVisibleChunks

ViewSpecInit ==
    /\ AppIdle /\ GenIdle /\ HashIdle /\ ViewInit
    /\ bounds_call = <<>> /\ biome_call = <<>> /\ compress_call = <<>>
    /\ id_call = <<>> /\ resource_call = <<>> /\ field_call = <<>>
    /\ stream_call = <<>> /\ pack_call = <<>> /\ new_call = <<>>

ViewSpec == ViewSpecInit /\ [][ViewNext]_vars

\* --------------------- the systems that write and feed the SpatialHash

\* Translations of environment sprites (tile translations), in two cells.
SpritePositions == {<<-68, 12>>, <<12, 12>>}

\* optimized_systems.rs:398-405: the LODLevel update_lod_system gives a sprite
\* nearer than 100 and one between 300 and 600 from the camera
LodLevels == {0, 2}

\* Number of handles in the grid.
RECURSIVE grid_entries(_, _)
grid_entries(grid, cells) ==
    IF cells = {} THEN 0
    ELSE LET c == CHOOSE c \in cells : TRUE
         IN  Len(grid[c]) + grid_entries(grid, cells \ {c})

\* Sprites matched by Changed<Transform>, as live and changed entities.
ChangedSprites == {i \in DOMAIN sprites : sprites[i].live /\ sprites[i].changed}

\* optimized_systems.rs:440-442: insert for the entities of the sequence ids
RECURSIVE insert_all(_, _)
insert_all(grid, ids) ==
    IF ids = <<>> THEN grid
    ELSE insert_all(hash_insert(grid, Head(ids), sprites[Head(ids)].translation),
                    Tail(ids))

\* optimized_systems.rs:17-20: the SpatialHash resource is default, no sprite
\* exists.
IndexInit ==
    /\ spatial_hash = <<>>
    /\ sprites = <<>>
    /\ hash_call = <<>>

\* optimized_systems.rs:351-390, applied with the Commands of the frame: a
\* sprite with Transform, EnvironmentSprite and LODLevel(0), and SwayAnimation
\* if the element sways.  An added Transform counts as changed.
SpawnEnvironmentElement ==
    /\ Len(sprites) < MaxSprites
    /\ \E position \in SpritePositions, should_sway \in BOOLEAN :
          sprites' = Append(sprites, [translation |-> position,
                                      sways |-> should_sway,
                                      lod |-> 0,
                                      changed |-> TRUE,
                                      live |-> TRUE])
    /\ UNCHANGED <<spatial_hash, hash_call>>
    /\ UNCHANGED <<app_vars, gen_vars, fn_vars>>

\* optimized_systems.rs:195-199, 163-166: an unload or a world change
\* despawns the entity.
DespawnSprite ==
    /\ \E i \in DOMAIN sprites :
          /\ sprites[i].live
          /\ sprites' = [sprites EXCEPT ![i].live = FALSE]
    /\ UNCHANGED <<spatial_hash, hash_call>>
    /\ UNCHANGED <<app_vars, gen_vars, fn_vars>>

\* optimized_systems.rs:393-408: every live sprite gets the level of its
\* distance from the camera.
UpdateLodSystem ==
    /\ \E level \in [DOMAIN sprites -> LodLevels] :
          sprites' = [i \in DOMAIN sprites |->
                         IF sprites[i].live
                         THEN [sprites[i] EXCEPT !.lod = level[i]]
                         ELSE sprites[i]]
    /\ UNCHANGED <<spatial_hash, hash_call>>
    /\ UNCHANGED <<app_vars, gen_vars, fn_vars>>

\* optimized_systems.rs:420-433: the rotation of every swaying sprite of
\* level 0 or 1 is written.
OptimizedSwaySystem ==
    /\ sprites' = [i \in DOMAIN sprites |->
                      IF sprites[i].live /\ sprites[i].sways /\ sprites[i].lod < 2
                      THEN [sprites[i] EXCEPT !.changed = TRUE]
                      ELSE sprites[i]]
    /\ UNCHANGED <<spatial_hash, hash_call>>
    /\ UNCHANGED <<app_vars, gen_vars, fn_vars>>

\* environment.rs:210-219: the rotation of every swaying sprite is written.
SwayAnimationSystem ==
    /\ sprites' = [i \in DOMAIN sprites |->
                      IF sprites[i].live /\ sprites[i].sways
                      THEN [sprites[i] EXCEPT !.changed = TRUE]
                      ELSE sprites[i]]
    /\ UNCHANGED <<spatial_hash, hash_call>>
    /\ UNCHANGED <<app_vars, gen_vars, fn_vars>>

\* optimized_systems.rs:436-444: insert for every sprite whose Transform
\* changed since the system last ran, here in the order of the handles.
UpdateSpatialHashSystem ==
    /\ grid_entries(spatial_hash, DOMAIN spatial_hash)
           + Cardinality(ChangedSprites) <= MaxIndexEntries
    /\ spatial_hash' =
           insert_all(spatial_hash,
                      SelectSeq([i \in DOMAIN sprites |-> i],
                                LAMBDA i : i \in ChangedSprites))
    /\ sprites' = [i \in DOMAIN sprites |->
                      [sprites[i] EXCEPT !.changed = FALSE]]
    /\ UNCHANGED hash_call
    /\ UNCHANGED <<app_vars, gen_vars, fn_vars>>

IndexNext ==
    \/ SpawnEnvironmentElement
    \/ DespawnSprite
    \/ UpdateLodSystem
    \/ OptimizedSwaySystem
    \/ SwayAnimationSystem
    \/ UpdateSpatialHashSystem

IndexSpecInit == AppIdle /\ GenIdle /\ FnIdle /\ IndexInit

IndexSpec == IndexSpecInit /\ [][IndexNext]_vars

\* ------------------------------------- single calls of the SpatialHash

\* Entity handles given to insert and remove.
HashEntities == {1, 2}

\* Positions given to insert, remove and get_nearby: on both sides of zero
\* and of a cell border.
HashPositions == {<<x, y>> : x \in {-70, -10, 10}, y \in {-70, 10}}

\* Radii given to get_nearby: within a cell, and a whole cell.
HashRadii == {5, cell_size}

\* optimization.rs:36-43: the grid is empty.  hash_call keeps the pairs of
\* entity and position inserted and not removed from the cell of the
\* position since, and the last query with its result.
HashInit ==
    /\ spatial_hash = <<>>
    /\ sprites = <<>>
    /\ hash_call = [inserted |-> {}, query |-> <<>>]

\* optimization.rs:46-49
CallInsert ==
    /\ grid_entries(spatial_hash, DOMAIN spatial_hash) < MaxIndexEntries
    /\ \E entity \in HashEntities, position \in HashPositions :
          /\ spatial_hash' = hash_insert(spatial_hash, entity, position)
          /\ hash_call' =
                 [inserted |-> hash_call.inserted \cup {<<entity, position>>},
                  query |-> <<>>]
    /\ UNCHANGED sprites
    /\ UNCHANGED <<app_vars, gen_vars, fn_vars>>

\* optimization.rs:51-56
CallRemove ==
    /\ \E entity \in HashEntities, position \in HashPositions :
          /\ spatial_hash' = hash_remove(spatial_hash, entity, position)
          /\ hash_call' =
                 [inserted |->
                      {pair \in hash_call.inserted :
                          ~(/\ pair[1] = entity
                            /\ world_to_cell(pair[2]) = world_to_cell(position))},
                  query |-> <<>>]
    /\ UNCHANGED sprites
    /\ UNCHANGED <<app_vars, gen_vars, fn_vars>>

\* optimization.rs:58-71
CallGetNearby ==
    /\ \E position \in HashPositions, radius \in HashRadii :
          hash_call' =
              [hash_call EXCEPT
                  !.query = <<[position |-> position,
                               radius |-> radius,
                               result |-> get_nearby(spatial_hash, position,
                                                     radius)]>>]
    /\ UNCHANGED <<spatial_hash, sprites>>
    /\ UNCHANGED <<app_vars, gen_vars, fn_vars>>

HashNext ==
    \/ CallInsert
    \/ CallRemove
    \/ CallGetNearby

HashSpecInit == AppIdle /\ GenIdle /\ FnIdle /\ HashInit

HashSpec == HashSpecInit /\ [][HashNext]_vars

\* ------------------------------------------- the frame loop, scheduled
\* The application's schedule runner starts a frame after a frame for as
\* long as the application runs, so a step of the frame loop that can be
\* taken is eventually taken; every system runs once in every frame (the
\* guards on ran).  The generation task runs on the compute pool and
\* returns.
FairSpec == Spec /\ WF_vars(Next) /\ WF_vars(TaskCompletes)

\* ================================================================ claims

\* The square of chunk coordinates within r rings of center, inclusive.
Rings(center, r) ==
    {<<x, y>> : x \in (center[1] - r)..(center[1] + r),
                y \in (center[2] - r)..(center[2] + r)}

\* The tile range of chunk coordinate c meets the world [0,N) x [0,N).
IntersectsWorld(c) ==
    /\ c[1] * CHUNK_SIZE < WORLD_SIZE /\ (c[1] + 1) * CHUNK_SIZE > 0
    /\ c[2] * CHUNK_SIZE < WORLD_SIZE /\ (c[2] + 1) * CHUNK_SIZE > 0

\* C1: after every streaming pass the coordinates with a Chunk entry in
\* loaded_chunks are the target set of that pass and the contents of
\* active_chunks; a coordinate the pass dropped has no entry and, once the
\* frame's Commands are applied, none of its entities is alive; a coordinate
\* the pass added has an entry with is_loaded = true.
C1_StreamingPassInvariant ==
    last_pass.streamed =>
        /\ DOMAIN loaded_chunks = ToSet(last_pass.target)
        /\ ToSet(active_chunks) = ToSet(last_pass.target)
        /\ \A c \in last_pass.unloaded :
              c \notin ToSet(last_pass.target) /\ c \notin DOMAIN loaded_chunks
        /\ \A c \in last_pass.loaded :
              c \in DOMAIN loaded_chunks /\ loaded_chunks[c].is_loaded
        /\ ran = {} => last_pass.despawned \cap entities = {}

\* A pass that unloaded chunks with entities and loaded chunks with entities,
\* after its frame has ended.
C1_Witness ==
    /\ last_pass.streamed
    /\ ran = {}
    /\ last_pass.unloaded # {}
    /\ last_pass.despawned # {}
    /\ \E c \in last_pass.loaded : loaded_chunks[c].entities # {}

\* The chunk state of a viewer at p whose streaming has converged: both
\* collections hold the target set of p, and the last pass loaded nothing and
\* unloaded nothing.
ConvergedAt(p) ==
    /\ last_pass.streamed
    /\ active_chunks = calculate_visible_chunks(p)
    /\ DOMAIN loaded_chunks = ToSet(calculate_visible_chunks(p))
    /\ last_pass.loaded = {}
    /\ last_pass.unloaded = {}

\* C2: streaming convergence.  If from some frame on the viewer no longer
\* moves (the WorldMap, once installed, never changes), then from some frame
\* on active_chunks and the coordinates of loaded_chunks are the target set of
\* the viewer's position, every pass loads nothing and unloads nothing, and
\* no step changes loaded_chunks or active_chunks.
C2_StreamingConvergence ==
    <>[][camera_pos' = camera_pos]_vars =>
        /\ <>[]ConvergedAt(camera_pos)
        /\ <>[][loaded_chunks' = loaded_chunks
                 /\ active_chunks' = active_chunks]_vars

\* A pass with nothing to do, away from the start position, after an earlier
\* pass has moved the set.
C2_Witness ==
    /\ ConvergedAt(camera_pos)
    /\ camera_chunk(camera_pos) # <<0, 0>>
    /\ last_pass.camera = camera_pos

C4_TargetKeepsOutsideChunks ==
    last_pass.streamed =>
        /\ last_pass.camera = <<0, 0>> =>
              {<<-1, -1>>, <<-1, 0>>, <<0, -1>>} \subseteq ToSet(last_pass.target)
        /\ \A c \in ToSet(last_pass.target) :
              ~IntersectsWorld(c) =>
                  /\ c \in DOMAIN loaded_chunks
                  /\ loaded_chunks[c].is_loaded
                  /\ loaded_chunks[c].entities = {}

\* The first pass of a viewer at the origin: chunk (-1,-1) has an entry.
C4_Witness ==
    /\ last_pass.streamed
    /\ last_pass.camera = <<0, 0>>
    /\ <<-1, -1>> \in DOMAIN loaded_chunks
    /\ <<0, 0>> \in DOMAIN loaded_chunks
    /\ loaded_chunks[<<0, 0>>].entities # {}

\* C4 as stated: every coordinate of the target set intersects the world.
C4_AsStated ==
    last_pass.streamed =>
        \A c \in ToSet(last_pass.target) : IntersectsWorld(c)

\* The chunk coordinates whose range holds the tile.
CoveringChunks(tile) ==
    {d \in ChunkCoord \X ChunkCoord :
        IntersectsWorld(d) /\ InBounds(tile, chunk_to_world_bounds(d[1], d[2]))}

\* C5: chunk tiling.  Every tile of the world lies in the range of exactly one
\* of the chunk coordinates that intersect the world, the partial chunks at
\* the high edge included: the called coordinate's range holds the tile if
\* and only if it is that one coordinate, and then it is the chunk
\* world_to_chunk_coord gives the tile.
C5_ChunkTiling ==
    (bounds_call # <<>> /\ bounds_call[1].pc # "start") =>
        LET call == bounds_call[1]
        IN  /\ Cardinality(CoveringChunks(call.tile)) = 1
            /\ InBounds(call.tile, call.bounds)
                 <=> CoveringChunks(call.tile) = {call.chunk}
            /\ InBounds(call.tile, call.bounds)
                 => call.chunk = world_to_chunk_coord(call.tile[1], call.tile[2])

\* The corner tile in the range of the partial chunk at the high edge.
C5_Witness ==
    /\ bounds_call # <<>>
    /\ bounds_call[1].pc = "bounds"
    /\ bounds_call[1].tile = <<WORLD_SIZE - 1, WORLD_SIZE - 1>>
    /\ bounds_call[1].chunk = <<LastChunk, LastChunk>>
    /\ bounds_call[1].bounds[3] - bounds_call[1].bounds[1] < CHUNK_SIZE
    /\ InBounds(bounds_call[1].tile, bounds_call[1].bounds)

\* The chunk coordinate lies entirely outside the world: negative, or
\* starting at or beyond N, in some axis.
OutsideWorld(c) ==
    \/ c[1] < 0 \/ c[1] * CHUNK_SIZE >= WORLD_SIZE
    \/ c[2] < 0 \/ c[2] * CHUNK_SIZE >= WORLD_SIZE

\* C6: for a chunk coordinate entirely outside the world,
\* chunk_to_world_bounds returns four values in [0,N] with start >= end in
\* some axis, and render_chunk reads no tile and realizes no entity (it
\* returns at its first check and indexes nothing).
C6_OutsideChunkIsNoOp ==
    (bounds_call # <<>> /\ OutsideWorld(bounds_call[1].chunk)) =>
        LET call == bounds_call[1]
        IN  /\ call.pc # "start" =>
                 /\ \A i \in 1..4 : call.bounds[i] \in 0..WORLD_SIZE
                 /\ call.bounds[1] >= call.bounds[3]
                      \/ call.bounds[2] >= call.bounds[4]
            /\ call.pc = "rendered" =>
                 call.tiles_read = {} /\ call.entities = {}

\* render_chunk has returned for the chunk that starts beyond N in x only.
C6_Witness ==
    /\ bounds_call # <<>>
    /\ bounds_call[1].pc = "rendered"
    /\ bounds_call[1].chunk = <<LastChunk + 1, 0>>
    /\ bounds_call[1].bounds[2] < bounds_call[1].bounds[4]
    /\ bounds_call[1].entities = {}

\* The tile computed from (seed, x, y) alone, for every seed of a run and
\* every slot of the grid.
tiles_of_seed ==
    [s \in {0, MaxSeed} |->
        [x \in TileIndex |-> [y \in TileIndex |-> generate_tile(s, x, y)]]]

\* C7: generation is deterministic under every worker schedule.  Whatever
\* order the pool's threads took and returned the sub-blocks in, and whichever
\* try_lock calls on the progress tracker failed, the returned WorldMap is the
\* function of the seed alone: every tile has the biome, elevation,
\* temperature, moisture and resources computed from (seed, x, y).
C7_GenerationDeterministic ==
    gen_pc = "done" =>
        /\ world_out[1].seed = gen_seed
        /\ \A x \in TileIndex, y \in TileIndex :
              world_out[1].tiles[x][y] = tiles_of_seed[gen_seed][x][y]

\* A finished generation in which some try_lock failed.
C7_Witness ==
    /\ gen_pc = "done"
    /\ gen_seed = MaxSeed
    /\ gen_tracker.count < WORLD_SIZE * WORLD_SIZE

\* The sub-blocks that produce the tile.
ProducingSubBlocks(x, y) ==
    {i \in ChunkIndex : InBounds(<<x, y>>, sub_block_bounds(i))}

\* Every tile of the grid is in the bounds of exactly one sub-block.
EveryTileProducedOnce ==
    \A x \in TileIndex, y \in TileIndex :
        Cardinality(ProducingSubBlocks(x, y)) = 1

\* C8: the sub-blocks partition the grid.  Every tile is produced by exactly
\* one sub-block, the truncated ones at the high edge included; the merge
\* never writes a slot twice, and when the call returns every slot has been
\* written exactly once, so none keeps the placeholder.
C8_SubBlocksPartition ==
    /\ gen_pc # "idle" =>
          /\ EveryTileProducedOnce
          /\ \A x \in TileIndex, y \in TileIndex : write_count[x][y] <= 1
    /\ gen_pc = "done" =>
          \A x \in TileIndex, y \in TileIndex :
              /\ write_count[x][y] = 1
              /\ world_out[1].tiles[x][y] # PlaceholderTile

\* A finished generation: the corner slot, which a truncated sub-block
\* produces, has been written once.
C8_Witness ==
    /\ gen_pc = "done"
    /\ write_count[WORLD_SIZE - 1][WORLD_SIZE - 1] = 1
    /\ sub_block_bounds(total_chunks - 1)[3]
         - sub_block_bounds(total_chunks - 1)[1] < GEN_CHUNK_SIZE

\* C9: classifier totality.  For every input of [0,1]^3 the call returns, and
\* what it returns is one biome of BiomeType.
C9_ClassifierTotal ==
    (biome_call # <<>> /\ biome_call[1].result # "pending") =>
        biome_call[1].result \in BiomeType

\* The input no arm but the last one takes: mid elevation, temperature 0.3.
C9_Witness ==
    /\ biome_call # <<>>
    /\ biome_call[1].elevation = 50
    /\ biome_call[1].temperature = 30
    /\ biome_call[1].result = "Tundra"

\* The procedure of C10, arm by arm as it is listed; "Unmatched" if no listed
\* arm applies.
ListedProcedure(e, t, m) ==
    IF e < 30 THEN "Ocean"
    ELSE IF e < 35 THEN "Coastal"
    ELSE IF e > 80
         THEN (IF t < 30 THEN "Alpine"
               ELSE IF t < 70 THEN "Mountain" ELSE "Volcanic")
    ELSE IF e > 90 \/ t < 10 THEN "Tundra"
    ELSE IF t > 70 /\ m < 30 THEN "Desert"
    ELSE IF t > 70 /\ m < 60 THEN "Savanna"
    ELSE IF t > 70 /\ m >= 60 THEN "TropicalRainforest"
    ELSE IF 30 < t /\ t <= 70 /\ m > 80 THEN "Wetlands"
    ELSE IF 30 < t /\ t <= 70 /\ m > 40 THEN "Forest"
    ELSE IF 30 < t /\ t <= 70 /\ m <= 40 THEN "Grasslands"
    ELSE IF t <= 30 THEN "Tundra"
    ELSE "Unmatched"

\* C10: on [0,1]^3 the classifier returns what the listed fixed-priority
\* procedure returns.
C10_ClassifierProcedure ==
    (biome_call # <<>> /\ biome_call[1].result # "pending") =>
        biome_call[1].result =
            ListedProcedure(biome_call[1].elevation, biome_call[1].temperature,
                            biome_call[1].moisture)

\* A cold high tile: step 3 decides it (Alpine) before step 4 could (Tundra).
C10_Witness ==
    /\ biome_call # <<>>
    /\ biome_call[1].elevation = 85
    /\ biome_call[1].temperature = 5
    /\ biome_call[1].result = "Alpine"

\* C11: classification precedence.  A call with elevation > 0.8 returns
\* Alpine, Mountain or Volcanic and never Tundra; with elevation in (0.8, 0.9]
\* and temperature < 0.1 it returns Alpine; and the 'elevation > 0.90' clause
\* of step 4 never decides: whenever the result is Tundra the elevation is at
\* most 0.8, so the clause was false and a temperature test decided.
C11_HighElevationPrecedence ==
    (biome_call # <<>> /\ biome_call[1].result # "pending") =>
        LET call == biome_call[1]
        IN  /\ call.elevation > 80 =>
                 call.result \in {"Alpine", "Mountain", "Volcanic"}
            /\ (call.elevation > 80 /\ call.elevation <= 90
                    /\ call.temperature < 10) => call.result = "Alpine"
            /\ call.result = "Tundra" =>
                 /\ call.elevation <= 80
                 /\ call.temperature <= 30

\* A cold peak above 0.9: both clauses of step 4 hold, step 3 has decided.
C11_Witness ==
    /\ biome_call # <<>>
    /\ biome_call[1].elevation = 95
    /\ biome_call[1].temperature = 5
    /\ biome_call[1].result = "Alpine"

\* The coordinate of the lookup lies in the world.
LookupInRange ==
    compress_call[1].x < WORLD_SIZE /\ compress_call[1].y < WORLD_SIZE

\* C12: compression round trip.  For every in-range (x, y), get_biome(x, y) on
\* the data from_world_map built from a WorldMap is the id of the biome of
\* tiles[x][y] of that WorldMap.
C12_CompressionRoundTrip ==
    (compress_call # <<>> /\ compress_call[1].biome # <<>> /\ LookupInRange) =>
        compress_call[1].biome[1] =
            Returned(to_id(generated_worlds[compress_call[1].seed]
                      .tiles[compress_call[1].x][compress_call[1].y].biome))

\* The last tile of the world, held by the upper nibble of the last byte,
\* read back as a biome other than Ocean.
C12_Witness ==
    /\ compress_call # <<>>
    /\ compress_call[1].x = WORLD_SIZE - 1
    /\ compress_call[1].y = WORLD_SIZE - 1
    /\ compress_call[1].biome # <<>>
    /\ compress_call[1].biome[1].value # 0
    /\ from_id(compress_call[1].biome[1].value) =
          generated_worlds[compress_call[1].seed]
              .tiles[WORLD_SIZE - 1][WORLD_SIZE - 1].biome

\* C13 as stated: for every in-range (x, y), get_elevation(x, y) is the
\* elevation of the tile at the sampled coordinate of (x, y),
\* tiles[K * floor(x / K)][K * floor(y / K)].
C13_NearestSample ==
    (compress_call # <<>> /\ compress_call[1].elevation # <<>>
        /\ LookupInRange) =>
        compress_call[1].elevation[1] =
            Returned(generated_worlds[compress_call[1].seed]
                .tiles[SAMPLE_RESOLUTION
                          * (compress_call[1].x \div SAMPLE_RESOLUTION)]
                      [SAMPLE_RESOLUTION
                          * (compress_call[1].y \div SAMPLE_RESOLUTION)]
                .elevation)

\* C14 as stated: a lookup with x >= N or y >= N ends in a bounds-check
\* failure, not in a value.
C14_OutOfRangeFailsLoudly ==
    (compress_call # <<>> /\ ~LookupInRange) =>
        /\ compress_call[1].biome # <<>> =>
              compress_call[1].biome[1].outcome = "panic"
        /\ compress_call[1].elevation # <<>> =>
              compress_call[1].elevation[1].outcome = "panic"

C16_ResourceBound ==
    resource_call # <<>> =>
        LET call == resource_call[1]
            catalog == get_resources(call.biome)
        IN  \A i \in DOMAIN call.results :
                /\ Len(call.results[i]) >= 1
                /\ Len(call.results[i]) <= Min(3, Len(catalog))
                /\ ToSet(call.results[i]) \subseteq ToSet(catalog)

\* A hash that asks for three resources in a biome whose catalog has two.
C16_Witness ==
    /\ resource_call # <<>>
    /\ Len(get_resources(resource_call[1].biome)) = 2
    /\ ShiftedMod3(position_hash(resource_call[1].seed, resource_call[1].x,
                                  resource_call[1].y)) = 2
    /\ Len(resource_call[1].results) >= 1
    /\ Len(resource_call[1].results[1]) = 2

\* C17: resource selection is a deterministic prefix.  Every list is the first
\* k entries of the catalog in catalog order; two evaluations with the same
\* (seed, x, y) and biome give the same list; and the count depends on
\* (seed, x, y) only: one k in 1..3 gives, for every biome, the length
\* min(k, catalog size).
C17_DeterministicPrefix ==
    resource_call # <<>> =>
        LET call == resource_call[1]
            catalog == get_resources(call.biome)
        IN  /\ \A i \in DOMAIN call.results :
                  /\ Len(call.results[i]) <= Len(catalog)
                  /\ call.results[i] = SubSeq(catalog, 1, Len(call.results[i]))
            /\ \A i, j \in DOMAIN call.results :
                  call.results[i] = call.results[j]
            /\ \E k \in 1..3 :
                  \A b \in BiomeType :
                      Len(generate_resources_fast(b, call.seed, call.x, call.y))
                          = Min(k, Len(get_resources(b)))

\* Two evaluations for a Coastal tile: the same proper prefix of the catalog,
\* longer than one entry.
C17_Witness ==
    /\ resource_call # <<>>
    /\ resource_call[1].biome = "Coastal"
    /\ Len(resource_call[1].results) = 2
    /\ resource_call[1].results[1] = resource_call[1].results[2]
    /\ Len(resource_call[1].results[2]) \in {2, 3}

\* C18: field ranges.  For every value in [-1, 1] of each noise sample, the
\* elevation, the temperature and the moisture of the generated tile are each
\* in [0, 1].
C18_FieldsInUnitRange ==
    (field_call # <<>> /\ field_call[1].result # <<>>) =>
        /\ field_call[1].result[1].elevation \in 0..100
        /\ field_call[1].result[1].temperature \in 0..100
        /\ field_call[1].result[1].moisture \in 0..100

\* C19: progress is monotone.  Under every interleaving of the workers, the
\* fractions passed to the progress callback during one call, the final 1.0
\* included, are each in [0, 1] and never decrease from one invocation to
\* the next.
C19_ProgressMonotone ==
    \A i \in DOMAIN callback.calls :
        /\ callback.calls[i].progress \in 0..100
        /\ i > 1 => callback.calls[i - 1].progress <= callback.calls[i].progress

\* A finished call whose workers reported twice, 50 ms apart, with a growing
\* fraction, before the final 1.0.
C19_Witness ==
    /\ gen_pc = "done"
    /\ Len(callback.calls) = 3
    /\ callback.calls[1].progress < callback.calls[2].progress
    /\ callback.calls[2].progress < callback.calls[3].progress

\* C20: the observer is serialized.  Under every interleaving of the workers
\* at most one invocation of the callback is in progress, a worker inside the
\* callback holds the tracker and the stage mutex, and the final invocation
\* is entered only when every worker has returned and every sub-block is
\* collected.
C20_ObserverSerialized ==
    /\ callback.active <= 1
    /\ \A w \in DOMAIN workers :
          workers[w].pc = "in_callback" =>
              /\ gen_tracker.holder = w
              /\ current_stage.holder = w
              /\ callback.active = 1
    /\ gen_pc = "final" =>
          /\ callback.active = 1
          /\ \A w \in DOMAIN workers : workers[w].pc = "idle"
          /\ DOMAIN chunk_results = ChunkIndex

\* One worker is inside the callback while another has finished its
\* sub-block and is about to try the tracker.
C20_Witness ==
    /\ callback.active = 1
    /\ \E w \in DOMAIN workers, v \in DOMAIN workers :
          /\ workers[w].pc = "in_callback"
          /\ workers[v].pc = "generated"

\* A step of the streaming pass that sees world_map.is_changed().
PassDetectsReplacement ==
    /\ "stream" \in world_changed
    /\ "stream" \notin world_changed'

C22_StreamingIdempotent ==
    (stream_call # <<>> /\ stream_call[1].result # <<>>) =>
        LET call == stream_call[1]
            result == call.result[1]
        IN  /\ \A c \in (DOMAIN call.loaded) \cap ToSet(call.visible) :
                  /\ c \notin result.to_load
                  /\ c \in DOMAIN result.loaded
                  /\ result.loaded[c] = call.loaded[c]
                  /\ call.loaded[c].entities \cap result.despawned = {}
            /\ \A c \in ToSet(call.active) \ (DOMAIN call.loaded \cup ToSet(call.visible)) :
                  /\ c \in ToSet(result.to_unload)
                  /\ c \notin DOMAIN result.loaded
                  /\ result.despawned =
                       unload_despawns(call.loaded,
                                       SelectSeq(result.to_unload, LAMBDA d : d # c))

\* A run with both cases: one coordinate is loaded, with entities, and stays
\* in the target; another is active without an entry and leaves the target.
C22_Witness ==
    /\ stream_call # <<>>
    /\ stream_call[1].result # <<>>
    /\ \E c \in (DOMAIN stream_call[1].loaded) \cap ToSet(stream_call[1].visible) :
          stream_call[1].loaded[c].entities # {}
    /\ \E c \in ToSet(stream_call[1].active) :
          /\ c \notin DOMAIN stream_call[1].loaded
          /\ c \notin ToSet(stream_call[1].visible)
    /\ stream_call[1].result[1].despawned # {}

\* C23: unloads before loads.  In the chunk operations of one pass, in the
\* order they are made, no load precedes an unload; the loads are exactly the
\* target coordinates left without a Chunk entry once every unload is made.
C23_UnloadsBeforeLoads ==
    (stream_call # <<>> /\ stream_call[1].result # <<>>) =>
        LET call == stream_call[1]
            ops == call.result[1].ops
        IN  /\ \A i \in DOMAIN ops, j \in DOMAIN ops :
                  (ops[i].op = "load" /\ ops[j].op = "unload") => j < i
            /\ {ops[i].chunk : i \in {k \in DOMAIN ops : ops[k].op = "unload"}}
                  = ToSet(call.result[1].to_unload)
            /\ {ops[i].chunk : i \in {k \in DOMAIN ops : ops[k].op = "load"}}
                  = call.result[1].to_load

\* A pass that unloads a chunk with an entry and loads another.
C23_Witness ==
    /\ stream_call # <<>>
    /\ stream_call[1].result # <<>>
    /\ \E i \in DOMAIN stream_call[1].result[1].ops :
          /\ stream_call[1].result[1].ops[i].op = "unload"
          /\ stream_call[1].result[1].ops[i].had_entry
    /\ \E i \in DOMAIN stream_call[1].result[1].ops :
          stream_call[1].result[1].ops[i].op = "load"

\* C24: only nearby world data is materialized.  After every tick that made a
\* streaming pass, each tile entity alive is in the entity list of a Chunk
\* entry whose coordinate is in the pass's target set, and the tile entities
\* are at most (target-set size) x CHUNK_SIZE^2.
C24_OnlyNearbyMaterialized ==
    (ran = {} /\ last_pass.streamed) =>
        /\ \A e \in entities :
              e.kind = "tile" =>
                  \E c \in ToSet(last_pass.target) \cap DOMAIN loaded_chunks :
                      e \in loaded_chunks[c].entities
        /\ Cardinality({e \in entities : e.kind = "tile"})
              <= Len(last_pass.target) * CHUNK_SIZE * CHUNK_SIZE

\* C25: chunks within the streaming radius of the viewer stay loaded.  For
\* every viewer position over the world, the chunk of the tile presented at
\* the viewer, and the chunk of every tile presented within RENDER_DISTANCE of
\* the viewer, is in the target calculate_visible_chunks returns.
C25_RadiusChunksInTarget ==
    (view_call # <<>> /\ view_call[1].result # <<>>) =>
        LET p == view_call[1].camera_pos
            target == ToSet(view_call[1].result[1])
        IN  \A x \in 0..(WORLD_SIZE - 1), y \in 0..(WORLD_SIZE - 1) :
                LET q == tile_translation(x, y)
                    dx == q[1] - p[1]
                    dy == q[2] - p[2]
                IN  dx * dx + dy * dy <= RENDER_DISTANCE * RENDER_DISTANCE
                        => world_to_chunk_coord(x, y) \in target

\* Number of times entity is in the Vec of cell.
OccurrencesIn(grid, cell, entity) ==
    IF cell \in DOMAIN grid
    THEN Cardinality({k \in DOMAIN grid[cell] : grid[cell][k] = entity})
    ELSE 0

\* C26: the SpatialHash is consistent whenever update_spatial_hash_system has
\* seen every change.  Every live sprite is exactly once in the Vec of the
\* cell of its translation and in no other cell, and a despawned sprite is
\* in no cell.
C26_IndexConsistent ==
    (sprites # <<>> /\ ChangedSprites = {}) =>
        \A i \in DOMAIN sprites :
            \A cell \in DOMAIN spatial_hash \cup {world_to_cell(sprites[i].translation)} :
                OccurrencesIn(spatial_hash, cell, i) =
                    IF sprites[i].live /\ cell = world_to_cell(sprites[i].translation)
                    THEN 1 ELSE 0

\* Position q is inside the box of side 2 * radius around position p.
InQueryBox(q, p, radius) ==
    /\ p[1] - radius <= q[1] /\ q[1] <= p[1] + radius
    /\ p[2] - radius <= q[2] /\ q[2] <= p[2] + radius

\* C27: broad-phase completeness of get_nearby.  After any inserts and
\* removes, the result of get_nearby(p, r) has every entity inserted at a
\* position inside the box around p and not removed from that position's cell
\* since, also at negative coordinates, and has only entities stored in
\* cells between the cells of the corners of the box.
C27_NearbyComplete ==
    hash_call.query # <<>> =>
        LET q == hash_call.query[1]
            min_cell == world_to_cell(<<q.position[1] - q.radius,
                                        q.position[2] - q.radius>>)
            max_cell == world_to_cell(<<q.position[1] + q.radius,
                                        q.position[2] + q.radius>>)
        IN  /\ \A pair \in hash_call.inserted :
                  InQueryBox(pair[2], q.position, q.radius)
                      => pair[1] \in ToSet(q.result)
            /\ \A entity \in ToSet(q.result) :
                  \E cell \in DOMAIN spatial_hash :
                      /\ min_cell[1] <= cell[1] /\ cell[1] <= max_cell[1]
                      /\ min_cell[2] <= cell[2] /\ cell[2] <= max_cell[2]
                      /\ entity \in ToSet(spatial_hash[cell])

\* A query whose box has an entity inserted at negative coordinates and
\* spans several cells, after a remove emptied a cell, with another entity
\* stored outside the cells of the box.
C27_Witness ==
    /\ hash_call.query # <<>>
    /\ hash_call.query[1].radius = cell_size
    /\ \E pair \in hash_call.inserted :
          /\ pair[2][1] < 0 /\ pair[2][2] < 0
          /\ InQueryBox(pair[2], hash_call.query[1].position,
                        hash_call.query[1].radius)
          /\ pair[1] \in ToSet(hash_call.query[1].result)
    /\ \E cell \in DOMAIN spatial_hash : spatial_hash[cell] = <<>>
    /\ \E cell \in DOMAIN spatial_hash :
          \E entity \in ToSet(spatial_hash[cell]) :
              entity \notin ToSet(hash_call.query[1].result)

\* C28: the WorldMap and the CompressedWorldData are installed in one step.
\* At the start of every tick both resources are present, the
\* CompressedWorldData being the one built from the WorldMap, or both are
\* absent; and while the WorldMap is absent no Chunk is loaded and the last
\* pass has loaded nothing.
C28_InstalledTogether ==
    /\ ran = {} =>
          /\ (world_map = <<>>) <=> (compressed_data = <<>>)
          /\ world_map # <<>> =>
                 compressed_data = <<from_world_map(world_map[1])>>
    /\ world_map = <<>> =>
          /\ loaded_chunks = <<>>
          /\ ~last_pass.streamed
          /\ last_pass.loaded = {}
          /\ deferred.spawn = {}

\* The start of the first tick after the install: both resources are
\* present, and the last pass ran when there was no WorldMap.
C28_Witness ==
    /\ ran = {}
    /\ world_map # <<>>
    /\ compressed_data # <<>>
    /\ last_pass.ran
    /\ ~last_pass.streamed

\* C29: the shared progress counter loses no contribution.  Under every
\* interleaving of the pool threads, once every sub-block closure has
\* returned, the counter of the tracker is WORLD_SIZE * WORLD_SIZE.
C29_CounterComplete ==
    gen_pc \in {"merging", "final", "done"} =>
        gen_tracker.count = total_tiles

\* The calls of the callback made by pool threads, in their order.
WorkerCalls == SelectSeq(callback.calls, LAMBDA c : c.worker # 0)

\* C30: the progress calls made by pool threads are throttled.  On the
\* clock of the tracker, none is made in the first 50 ms of the generation,
\* and 50 ms at least pass between one and the next, under every
\* interleaving of the threads.
C30_WorkerCallsThrottled ==
    \A i \in DOMAIN WorkerCalls :
        /\ WorkerCalls[i].at >= 50
        /\ i > 1 => WorkerCalls[i].at - WorkerCalls[i - 1].at >= 50

\* Two calls by different pool threads have been made.
C30_Witness ==
    /\ Len(WorkerCalls) >= 2
    /\ WorkerCalls[1].worker # WorkerCalls[2].worker

\* C31: the number of chunks to load never underflows.  The coordinates that
\* have a Chunk entry are always coordinates of active_chunks, also right
\* after the WorldMap is installed; so in every pass the entries left after
\* the unloads are in the target, and the difference of line 210 is the
\* number of chunks the pass loads, not a negative number.
C31_LoadCountNoUnderflow ==
    /\ DOMAIN loaded_chunks \subseteq ToSet(active_chunks)
    /\ last_pass.streamed =>
          /\ last_pass.total_chunks_to_load >= 0
          /\ last_pass.total_chunks_to_load = Cardinality(last_pass.loaded)

\* A pass after the camera moved: it unloaded chunks, kept entries and loaded
\* fewer chunks than the target has.
C31_Witness ==
    /\ last_pass.streamed
    /\ last_pass.unloaded # {}
    /\ last_pass.total_chunks_to_load > 0
    /\ last_pass.total_chunks_to_load < Len(last_pass.target)

\* The Chunk entries whose entity list has the entity.
ReferencingChunks(e) ==
    {c \in DOMAIN loaded_chunks : e \in loaded_chunks[c].entities}

C33_BadlandsAndCavesUnreachable ==
    (biome_call # <<>> /\ biome_call[1].result # "pending") =>
        LET call == biome_call[1]
            arm == matched_arm(call.temperature, call.moisture)
        IN  /\ call.result \notin {"Badlands", "Caves"}
            /\ ~returns_before_match(call.elevation, call.temperature) =>
                  /\ call.result = match_results[arm]
                  /\ arm < Len(match_results) - 1
            /\ match_guards(call.temperature, call.moisture)[Len(match_results) - 1]
                  => match_guards(call.temperature, call.moisture)[1]

\* A call that reaches the match with an input of the Badlands guard has
\* returned Desert.
C33_Witness ==
    /\ biome_call # <<>>
    /\ biome_call[1].result = "Desert"
    /\ ~returns_before_match(biome_call[1].elevation, biome_call[1].temperature)
    /\ biome_call[1].temperature > 80
    /\ biome_call[1].moisture < 20

\* C34: biome ids round-trip and fit a nibble.  The ids of the two biomes are
\* in 0..13 and differ when the biomes differ, from_id gives each biome back
\* from its id, the byte (id2 << 4) | id1 holds id1 in its low nibble and id2
\* in its high nibble, and the biomes read back from the byte are the two
\* that were packed.
C34_IdsRoundTripInNibbles ==
    (pack_call # <<>> /\ pack_call[1].biomes # <<>>) =>
        LET call == pack_call[1]
        IN  /\ call.ids[1] \in 0..13 /\ call.ids[2] \in 0..13
            /\ (call.biome1 # call.biome2) => (call.ids[1] # call.ids[2])
            /\ from_id(call.ids[1]) = call.biome1
            /\ from_id(call.ids[2]) = call.biome2
            /\ call.packed[1] % 16 = call.ids[1]
            /\ call.packed[1] \div 16 = call.ids[2]
            /\ call.nibbles = call.ids
            /\ call.biomes = <<call.biome1, call.biome2>>

\* The two highest ids, 13 in the low nibble and 12 in the high one, have
\* been packed and read back.
C34_Witness ==
    /\ pack_call # <<>>
    /\ pack_call[1].biomes = <<"Badlands", "Volcanic">>
    /\ pack_call[1].packed = <<12 * 16 + 13>>

\* The life of the task entity: spawned and computing, result ready, result
\* taken by poll_once, entity despawned.
TaskRank ==
    CASE task = "running" -> 0
      [] task = "finished" -> 1
      [] task = "polled" -> 2
      [] task = "despawned" -> 3

\* What every step keeps, from the first frame on.
TaskTakenOnce ==
    /\ (task = "running" /\ "check" \notin ran) => ENABLED CheckWorldGeneration
    /\ ("check" \in ran' /\ "check" \notin ran) => task # "polled"
    /\ TaskRank' >= TaskRank
    /\ (deferred'.install # <<>> /\ deferred.install = <<>>) =>
          (task = "finished" /\ task' = "polled")
    /\ world_map # <<>> => world_map' = world_map
    /\ (loading_state.first_frame_rendered /\ loading_state.is_complete) =>
          (loading_state'.first_frame_rendered /\ loading_state'.is_complete)

\* C35: under fair scheduling of the generation task and of the frames, the
\* task eventually completes and its entity is eventually despawned; check_world_generation_system returns in the
\* frames in which the task is still running; the result is taken once (the
\* system never runs on a task whose result it has taken, and the task never
\* goes back), the resources are queued by that one step and the WorldMap,
\* once installed, is never written again; and first_frame_rendered and
\* is_complete eventually hold and hold for ever.
C35_LoadingCompletes ==
    /\ <>[](/\ task = "despawned"
            /\ world_map = <<generated_world>>
            /\ loading_state.first_frame_rendered
            /\ loading_state.is_complete)
    /\ [][TaskTakenOnce]_vars

\* Loading has completed with the viewer away from the origin: the task
\* entity is gone, the WorldMap is installed, and a frame has ended since.
C35_Witness ==
    /\ task = "despawned"
    /\ world_map = <<generated_world>>
    /\ loading_state.first_frame_rendered /\ loading_state.is_complete
    /\ loading_state.progress = 100
    /\ ran = {}
    /\ camera_pos # <<0, 0>>

\* C36: the loading progress never decreases from one frame to the next.
\* When every system of a frame has run, LoadingState.progress is in [0, 1]
\* and is at least what it was when the frame before ended.
C36_ProgressNeverDecreases ==
    AllSystemsRan =>
        /\ loading_state.progress \in 0..100
        /\ tick_progress # <<>> => loading_state.progress >= tick_progress[1]

\* C37: constructing the generator is total over the seeds.  A call never
\* ends in an overflow panic, and the seeds of the three noise fields of a
\* returned generator are seed, seed + 1 and seed + 2 and pairwise distinct.
C37_ConstructionTotal ==
    new_call # <<>> =>
        LET call == new_call[1]
        IN  /\ call.pc # "panicked"
            /\ call.pc = "returned" =>
                  /\ call.elevation_seed # call.temperature_seed
                  /\ call.elevation_seed # call.moisture_seed
                  /\ call.temperature_seed # call.moisture_seed
====
